---------------------------- MODULE Spec2Model ----------------------------
(***************************************************************************)
(* A model of the ElasticSearchClone cluster: the shard node (tokenizer,   *)
(* inverted index, query engine, SearchService), the coordinator (fan-out  *)
(* over shard groups, merge, readiness) and its heartbeat / membership     *)
(* table.                                                                  *)
(*                                                                         *)
(* Text is a sequence of code points, each written as a string ("t", " ",  *)
(* "e_acute"); a token is a sequence of code points.  Scores are integers  *)
(* in units of 1e-5: field weights are scaled by 10 and natural logarithms *)
(* by 10000.                                                               *)
(***************************************************************************)
EXTENDS Integers, Sequences, FiniteSets, TLC

(***************************************************************************)
(* Bounds of the model.                                                    *)
(***************************************************************************)
MaxDocId == 4
MaxPage == 2
MaxPageSize == 2
MaxTicks == 5
MaxShards == 3
MaxBuilds == 3
MaxTokenLen == 3
MaxRounds == 2

\* Python's None where a string is expected (a replica URL, an error code)
None == "none"

\* an optional value that is no string: <<>> is None, <<v>> is the value v
NoValue == <<>>
Some(v) == <<v>>

(***************************************************************************)
(* Generic helpers on sequences and sets.                                  *)
(***************************************************************************)
Range(s) == {s[i] : i \in DOMAIN s}

Min(a, b) == IF a < b THEN a ELSE b

\* Python's list slice s[start:end] for 0 <= start, on 0-based positions.
SliceInclusive(s, start, end) ==
  SubSeq(s, start + 1, IF end + 1 < Len(s) THEN end + 1 ELSE Len(s))

Slice(s, start, end) ==
  SubSeq(s, start + 1, Min(end, Len(s)))

\* the element of a singleton set.  The({e(x) : x \in {v}}) is e(v) with v
\* computed once and before e, as an assignment x = v in the code is
The(S) == CHOOSE x \in S : TRUE

RECURSIVE Concat(_)
Concat(ss) ==
  IF ss = <<>> THEN <<>> ELSE Head(ss) \o Concat(Tail(ss))

RECURSIVE SumSeq(_)
SumSeq(s) ==
  IF s = <<>> THEN 0 ELSE Head(s) + SumSeq(Tail(s))

RECURSIVE SelectSeqBy(_, _)
\* the subsequence of s of the elements in set S (order and duplicates kept)
SelectSeqBy(s, S) ==
  IF s = <<>> THEN <<>>
  ELSE (IF Head(s) \in S THEN <<Head(s)>> ELSE <<>>) \o SelectSeqBy(Tail(s), S)

(***************************************************************************)
(* search/tokenizer.py                                                     *)
(***************************************************************************)
Whitespace == {" ", "\t"}
Punctuation == {"!", ",", ".", "-", "?"}
Digits == {"0", "1", "2", "3", "4", "5", "6", "7", "8", "9"}
CombiningMarks == {"acute_mark"}

\* str.lower() on the code points the model uses
LowerOf ==
  ("A" :> "a") @@ ("C" :> "c") @@ ("G" :> "g") @@ ("M" :> "m") @@
  ("S" :> "s") @@ ("T" :> "t") @@ ("V" :> "v") @@ ("W" :> "w") @@
  ("E_acute" :> "e_acute")

Lower(text) ==
  [i \in DOMAIN text |->
     IF text[i] \in DOMAIN LowerOf THEN LowerOf[text[i]] ELSE text[i]]

\* unicodedata.normalize("NFKD", .) of one code point
Nfkd(c) == IF c = "e_acute" THEN <<"e", "acute_mark">> ELSE <<c>>

normalize_unicode(text) ==
  LET normalized == Concat([i \in DOMAIN text |-> Nfkd(text[i])])
  IN  SelectSeqBy(normalized, Range(normalized) \ CombiningMarks)

RECURSIVE clean_punctuation(_)
\* regex.sub(r"\p{P}+", " ", text): every maximal run becomes one space
clean_punctuation(text) ==
  IF text = <<>> THEN <<>>
  ELSE IF Head(text) \in Punctuation
       THEN IF Len(text) > 1 /\ text[2] \in Punctuation
            THEN clean_punctuation(Tail(text))
            ELSE <<" ">> \o clean_punctuation(Tail(text))
       ELSE <<Head(text)>> \o clean_punctuation(Tail(text))

RECURSIVE SplitFrom(_, _)
\* str.split(): cur is the token being read
SplitFrom(text, cur) ==
  IF text = <<>> THEN (IF cur = <<>> THEN <<>> ELSE <<cur>>)
  ELSE IF Head(text) \in Whitespace
       THEN (IF cur = <<>> THEN <<>> ELSE <<cur>>) \o SplitFrom(Tail(text), <<>>)
       ELSE SplitFrom(Tail(text), Append(cur, Head(text)))

Split(text) == SplitFrom(text, <<>>)

\* str.strip() == "" : no code point other than whitespace
StripIsEmpty(text) == \A i \in DOMAIN text : text[i] \in Whitespace

\* str.isdigit()
IsDigit(token) == token # <<>> /\ \A i \in DOMAIN token : token[i] \in Digits

\* The Lexicon (NLTK): the stop words and the lemmas of the model's words.
STOP_WORDS == { <<"t","h","e">>, <<"a">>, <<"i","n">>, <<"o","f">> }

LemmaVerb ==
  (<<"f","l","i","e","s">> :> <<"f","l","y">>)
  @@ (<<"r","u","n","n","i","n","g">> :> <<"r","u","n">>)

LemmaNoun ==
  (<<"g","u","n","s">> :> <<"g","u","n">>)

Lemmatize(t, table) == IF t \in DOMAIN table THEN table[t] ELSE t

\* basic_token_filter, given the value of the module global STOP_WORDS
\* (NoValue is None, Some(S) a set): `token in None` raises TypeError
basic_token_filter(stop_words, token) ==
  IF Len(token) < 2 THEN [raised |-> None, value |-> FALSE]
  ELSE IF stop_words = NoValue THEN [raised |-> "TypeError"]
  ELSE IF token \in stop_words[1] THEN [raised |-> None, value |-> FALSE]
  ELSE IF IsDigit(token) THEN [raised |-> None, value |-> FALSE]
  ELSE [raised |-> None, value |-> TRUE]

tokenize(text) ==
  IF text = <<>> THEN <<>>
  ELSE LET tokens == Split(clean_punctuation(normalize_unicode(Lower(text))))
           kept == SelectSeqBy(tokens, Range(tokens) \ STOP_WORDS)
           verbs == [i \in DOMAIN kept |-> Lemmatize(kept[i], LemmaVerb)]
       IN  [i \in DOMAIN verbs |-> Lemmatize(verbs[i], LemmaNoun)]

(***************************************************************************)
(* The corpus file: a catalogue of movie records, in file order.  List     *)
(* valued fields (genres, cast) are sequences of texts.                    *)
(***************************************************************************)
\* {"id": 1, "title": "Top Gun", "year": "1986", "genres": ["War"], "description": "Tom flies", "cast": ["Tom", "Val"], "director": "Tony", "rating": "7"}
Movie1 ==
  [ id |-> 1,
    title |-> <<"T", "o", "p", " ", "G", "u", "n">>,
    year |-> <<"1", "9", "8", "6">>,
    genres |-> << <<"W", "a", "r">> >>,
    description |-> <<"T", "o", "m", " ", "f", "l", "i", "e", "s">>,
    cast |-> << <<"T", "o", "m">>, <<"V", "a", "l">> >>,
    director |-> <<"T", "o", "n", "y">>,
    rating |-> <<"7">> ]

\* {"id": 2, "title": "Tom", "year": "2001", "genres": ["War", "Spy"], "description": "", "cast": ["Tom"], "director": "Sam", "rating": "5"}
Movie2 ==
  [ id |-> 2,
    title |-> <<"T", "o", "m">>,
    year |-> <<"2", "0", "0", "1">>,
    genres |-> << <<"W", "a", "r">>, <<"S", "p", "y">> >>,
    description |-> <<>>,
    cast |-> << <<"T", "o", "m">> >>,
    director |-> <<"S", "a", "m">>,
    rating |-> <<"5">> ]

\* {"id": 3, "title": "The Spy", "year": "1999", "genres": ["Spy"], "description": "a gun, a spy!", "cast": ["Sam"], "director": "Tom", "rating": "6"}
Movie3 ==
  [ id |-> 3,
    title |-> <<"T", "h", "e", " ", "S", "p", "y">>,
    year |-> <<"1", "9", "9", "9">>,
    genres |-> << <<"S", "p", "y">> >>,
    description |-> <<"a", " ", "g", "u", "n", ",", " ", "a", " ", "s", "p", "y", "!">>,
    cast |-> << <<"S", "a", "m">> >>,
    director |-> <<"T", "o", "m">>,
    rating |-> <<"6">> ]

\* {"id": 4, "title": "Gun Guns", "year": "2010", "genres": ["War"], "description": "top gun", "cast": ["Tom", "Tom"], "director": "Val", "rating": "8"}
Movie4 ==
  [ id |-> 4,
    title |-> <<"G", "u", "n", " ", "G", "u", "n", "s">>,
    year |-> <<"2", "0", "1", "0">>,
    genres |-> << <<"W", "a", "r">> >>,
    description |-> <<"t", "o", "p", " ", "g", "u", "n">>,
    cast |-> << <<"T", "o", "m">>, <<"T", "o", "m">> >>,
    director |-> <<"V", "a", "l">>,
    rating |-> <<"8">> ]

\* {"id": 5, "title": "Café", "year": "2020", "genres": ["Spy"], "description": "Sam in war", "cast": ["Val"], "director": "Tom", "rating": "4"}
Movie5 ==
  [ id |-> 5,
    title |-> <<"C", "a", "f", "e_acute">>,
    year |-> <<"2", "0", "2", "0">>,
    genres |-> << <<"S", "p", "y">> >>,
    description |-> <<"S", "a", "m", " ", "i", "n", " ", "w", "a", "r">>,
    cast |-> << <<"V", "a", "l">> >>,
    director |-> <<"T", "o", "m">>,
    rating |-> <<"4">> ]

\* {"id": 6, "title": "Top", "year": "2021", "genres": ["War"], "description": "gun", "cast": ["Sam"], "director": "Sam", "rating": "3"}
Movie6 ==
  [ id |-> 6,
    title |-> <<"T", "o", "p">>,
    year |-> <<"2", "0", "2", "1">>,
    genres |-> << <<"W", "a", "r">> >>,
    description |-> <<"g", "u", "n">>,
    cast |-> << <<"S", "a", "m">> >>,
    director |-> <<"S", "a", "m">>,
    rating |-> <<"3">> ]

Catalogue == <<Movie1, Movie2, Movie3, Movie4, Movie5, Movie6>>

\* app/core/search_service.py load_data: the fields that are indexed
IndexedFields ==
  <<"title", "year", "genres", "description", "cast", "director", "rating">>

ListFields == {"genres", "cast"}

(***************************************************************************)
(* search/indexer.py                                                       *)
(***************************************************************************)
\* f with key k set to v (a dict assignment)
Put(f, k, v) == (k :> v) @@ f

EmptyMap == <<>>

\* Indexer.__init__ ; index_keys is the insertion order of the dict index
NewIndexer ==
  [ index |-> EmptyMap, index_keys |-> <<>>, documents |-> EmptyMap,
    total_documents |-> 0, doc_freq |-> EmptyMap, index_tokens |-> <<>>,
    ngram_index |-> EmptyMap, ngram_n |-> 3 ]

NewPosting == [fields |-> {}, tf |-> 0, tf_by_field |-> EmptyMap]

\* an iteration that sets the count of the field to 1 instead of adding 1
AddTokenFieldOnce(ix, doc_id, field_name, token) ==
  LET byDoc0 == IF token \in DOMAIN ix.index THEN ix.index[token] ELSE EmptyMap
      keys == IF token \in DOMAIN ix.index THEN ix.index_keys
              ELSE Append(ix.index_keys, token)
      p0 == IF doc_id \in DOMAIN byDoc0 THEN byDoc0[doc_id] ELSE NewPosting
      p1 == [ fields |-> p0.fields \cup {field_name},
              tf |-> p0.tf + 1,
              tf_by_field |-> Put(p0.tf_by_field, field_name, 1) ]
  IN  [ix EXCEPT !.index = Put(ix.index, token, Put(byDoc0, doc_id, p1)),
                 !.index_keys = keys]

\* one iteration of the loop of Indexer.add_tokens
AddToken(ix, doc_id, field_name, token) ==
  LET byDoc0 == IF token \in DOMAIN ix.index THEN ix.index[token] ELSE EmptyMap
      keys == IF token \in DOMAIN ix.index THEN ix.index_keys
              ELSE Append(ix.index_keys, token)
      p0 == IF doc_id \in DOMAIN byDoc0 THEN byDoc0[doc_id] ELSE NewPosting
      old == IF field_name \in DOMAIN p0.tf_by_field
             THEN p0.tf_by_field[field_name] ELSE 0
      p1 == [ fields |-> p0.fields \cup {field_name},
              tf |-> p0.tf + 1,
              tf_by_field |-> Put(p0.tf_by_field, field_name, old + 1) ]
  IN  [ix EXCEPT !.index = Put(ix.index, token, Put(byDoc0, doc_id, p1)),
                 !.index_keys = keys]

RECURSIVE AddTokensLoop(_, _, _, _)
AddTokensLoop(ix, doc_id, field_name, tokens) ==
  IF tokens = <<>> THEN ix
  ELSE The({ AddTokensLoop(ix1, doc_id, field_name, Tail(tokens)) :
               ix1 \in {AddToken(ix, doc_id, field_name, Head(tokens))} })

\* Indexer.add_tokens (full_doc is a non-empty record, hence truthy)
add_tokens(ix, doc_id, field_name, tokens, full_doc) ==
  The({ [ix1 EXCEPT !.documents = Put(ix1.documents, doc_id, full_doc)] :
          ix1 \in {AddTokensLoop(ix, doc_id, field_name, tokens)} })

\* the coercion of a field value to text in Indexer.build
FieldText(doc, field) ==
  IF field \in ListFields
  THEN LET parts == doc[field]
       IN  Concat([i \in DOMAIN parts |->
                     IF i = 1 THEN parts[i] ELSE <<" ">> \o parts[i]])
  ELSE doc[field]

RECURSIVE CountDocFreq(_, _, _)
\* the doc_freq loop of Indexer.build over one field's tokens;
\* returns the pair <<doc_freq, seen_tokens>>
CountDocFreq(doc_freq, seen, tokens) ==
  IF tokens = <<>> THEN <<doc_freq, seen>>
  ELSE LET t == Head(tokens)
           old == IF t \in DOMAIN doc_freq THEN doc_freq[t] ELSE 0
       IN  IF t \in seen THEN CountDocFreq(doc_freq, seen, Tail(tokens))
           ELSE CountDocFreq(Put(doc_freq, t, old + 1), seen \cup {t},
                             Tail(tokens))

\* one field of one document in Indexer.build, given the field's tokens:
\* the doc_freq loop, then add_tokens; returns <<indexer, seen_tokens>>
BuildField(ix, seen, doc, field, tokens) ==
  The({ <<add_tokens([ix EXCEPT !.doc_freq = counted[1]],
                     doc.id, field, tokens, doc), counted[2]>> :
          counted \in {CountDocFreq(ix.doc_freq, seen, tokens)} })

RECURSIVE BuildFields(_, _, _, _)
\* the loop over fields of one document in Indexer.build
BuildFields(ix, seen, doc, fields) ==
  IF fields = <<>> THEN ix
  ELSE The({ BuildFields(done[1], done[2], doc, Tail(fields)) :
               done \in {BuildField(ix, seen, doc, Head(fields),
                            tokenize(FieldText(doc, Head(fields))))} })

RECURSIVE BuildDocs(_, _, _)
\* the loop over documents in Indexer.build
BuildDocs(ix, documents, fields) ==
  IF documents = <<>> THEN ix
  ELSE The({ BuildDocs(ix2, Tail(documents), fields) :
               ix2 \in {BuildFields(
                          [ix EXCEPT !.total_documents = ix.total_documents + 1],
                          {}, Head(documents), fields)} })

\* Indexer._ngrams (a token holds no whitespace, so strip() keeps it)
ngrams(s, n) ==
  IF s = <<>> THEN <<>>
  ELSE IF Len(s) < n
       THEN IF Len(s) < 2 THEN <<s>>
            ELSE [i \in 1..(Len(s) - 1) |-> SubSeq(s, i, i + 1)]
       ELSE [i \in 1..(Len(s) - n + 1) |-> SubSeq(s, i, i + n - 1)]

\* the n-gram index over the vocabulary: gram -> set of tokens
NgramIndexOf(tokens, n) ==
  LET grams == UNION {Range(ngrams(tokens[i], n)) : i \in DOMAIN tokens}
  IN  [g \in grams |->
         {tokens[i] : i \in {j \in DOMAIN tokens : g \in Range(ngrams(tokens[j], n))}}]

\* Indexer.build
build(ix, documents, fields) ==
  The({ [ix1 EXCEPT !.index_tokens = ix1.index_keys,
                    !.ngram_index = NgramIndexOf(ix1.index_keys, ix1.ngram_n)] :
          ix1 \in {BuildDocs(ix, documents, fields)} })

\* round(10000 * ln(a / b)) for 1 <= a <= 8, 1 <= b <= 9
LnTable ==
  <<
     <<0, -6931, -10986, -13863, -16094, -17918, -19459, -20794, -21972>>,
     <<6931, 0, -4055, -6931, -9163, -10986, -12528, -13863, -15041>>,
     <<10986, 4055, 0, -2877, -5108, -6931, -8473, -9808, -10986>>,
     <<13863, 6931, 2877, 0, -2231, -4055, -5596, -6931, -8109>>,
     <<16094, 9163, 5108, 2231, 0, -1823, -3365, -4700, -5878>>,
     <<17918, 10986, 6931, 4055, 1823, 0, -1542, -2877, -4055>>,
     <<19459, 12528, 8473, 5596, 3365, 1542, 0, -1335, -2513>>,
     <<20794, 13863, 9808, 6931, 4700, 2877, 1335, 0, -1178>> >>

\* Indexer.idf: math.log(total_documents / (df + 1)), scaled by 10000
idf(ix, token) ==
  LET df == IF token \in DOMAIN ix.doc_freq THEN ix.doc_freq[token] ELSE 0
  IN  LnTable[ix.total_documents][df + 1]

\* Indexer.lookup: a copy of the postings of the token
lookup(ix, token) ==
  IF token \in DOMAIN ix.index THEN ix.index[token] ELSE EmptyMap

\* Indexer.fuzzy_candidates.  counts is a dict: among candidates of equal
\* count the order is that of first insertion, which follows the n-grams of
\* the token; within the set of one n-gram the vocabulary order stands for
\* the iteration order of the set.
RECURSIVE SortByCount(_, _)
\* the stable sort by count, descending, of the candidates (a sequence)
SortByCount(cands, counts) ==
  IF cands = <<>> THEN <<>>
  ELSE LET top == CHOOSE i \in DOMAIN cands :
                    /\ \A j \in DOMAIN cands : counts[cands[j]] <= counts[cands[i]]
                    /\ \A j \in 1..(i - 1) : counts[cands[j]] < counts[cands[i]]
       IN  <<cands[top]>> \o
           SortByCount(SubSeq(cands, 1, top - 1) \o
                       SubSeq(cands, top + 1, Len(cands)), counts)

fuzzy_candidates(ix, token, max_candidates) ==
  LET grams == ngrams(token, ix.ngram_n)
      hit(g) == IF g \in DOMAIN ix.ngram_index THEN ix.ngram_index[g] ELSE {}
      found == UNION {hit(grams[i]) : i \in DOMAIN grams}
      counts == [c \in found |->
                   Cardinality({i \in DOMAIN grams : c \in hit(grams[i])})]
      min_overlap == IF Len(token) >= 6 THEN 2 ELSE 1
      first(c) == CHOOSE i \in DOMAIN grams :
                    /\ c \in hit(grams[i])
                    /\ \A j \in 1..(i - 1) : c \notin hit(grams[j])
      inserted == Concat([i \in DOMAIN grams |->
                    SelectSeqBy(ix.index_tokens, {c \in found : first(c) = i})])
      ranked == SelectSeqBy(inserted, {c \in found : counts[c] >= min_overlap})
  IN  IF found = {} THEN <<>>
      ELSE Slice(SortByCount(ranked, counts), 0, max_candidates)

(***************************************************************************)
(* search/query.py                                                         *)
(***************************************************************************)
\* FIELD_WEIGHTS, times 10
FIELD_WEIGHTS ==
  [title |-> 50, cast |-> 40, director |-> 30, genres |-> 30,
   description |-> 10, year |-> 5, rating |-> 1]

FieldWeight(field) ==
  IF field \in DOMAIN FIELD_WEIGHTS THEN FIELD_WEIGHTS[field] ELSE 0

FUZZY_MIN_TOKEN_LEN == 4
FUZZY_MAX_TOKENS_PER_QUERY == 3
FUZZY_SCORE_THRESHOLD == 80
\* the penalties, times 10
FUZZY_NON_TITLE_PENALTY == 6
FUZZY_DESCRIPTION_PENALTY == 8
SYN_MAX_PER_BASE_TOKEN == 5
SYN_SKIP_SHORT_TOKENS_LEN == 3

\* a similarity of 1.0, in thousandths
ExactSimilarity == 1000

\* WordNet: the lemma names of the synsets of a token, in the order in
\* which synsets and lemmas are iterated, "_" already replaced by " ".
\* For film: movie, film, picture, motion_picture, picture_show, pic, flick
\* of its first synset, then cinema, celluloid (names of one synset repeat
\* words, as those of WordNet do).
WordNetLemmas ==
  (<<"f","i","l","m">> :>
     << <<"m","o","v","i","e">>, <<"f","i","l","m">>,
        <<"p","i","c","t","u","r","e">>,
        <<"m","o","t","i","o","n"," ","p","i","c","t","u","r","e">>,
        <<"p","i","c","t","u","r","e"," ","s","h","o","w">>,
        <<"p","i","c">>, <<"f","l","i","c","k">>,
        <<"c","i","n","e","m","a">>,
        <<"c","e","l","l","u","l","o","i","d">> >>)
  @@ (<<"c","a","f","e">> :> << <<"c","a","f","e">>,
                               <<"c","o","f","f","e","e"," ","s","h","o","p">> >>)

LemmasOf(token) ==
  IF token \in DOMAIN WordNetLemmas THEN WordNetLemmas[token] ELSE <<>>

RECURSIVE SynAddTokens(_, _, _, _)
\* the loops over lemmas and their tokens for one base token: nts is the
\* sequence of the normalized tokens of all lemmas, in order;
\* returns the expanded set
SynAddTokens(expanded, token, nts, added) ==
  IF nts = <<>> \/ added >= SYN_MAX_PER_BASE_TOKEN THEN expanded
  ELSE IF Head(nts) = token
       THEN SynAddTokens(expanded, token, Tail(nts), added)
       ELSE SynAddTokens(expanded \cup {Head(nts)}, token, Tail(nts), added + 1)

\* the body of the loop of QueryEngine.synonyms for one base token
SynExpandToken(expanded, token) ==
  IF IsDigit(token) \/ Len(token) <= SYN_SKIP_SHORT_TOKENS_LEN THEN expanded
  ELSE LET lemmas == LemmasOf(token)
           nts == Concat([i \in DOMAIN lemmas |-> tokenize(Lower(lemmas[i]))])
       IN  SynAddTokens(expanded, token, nts, 0)

RECURSIVE SynLoop(_, _)
SynLoop(expanded, todo) ==
  IF todo = {} THEN expanded
  ELSE LET token == CHOOSE t \in todo : TRUE
       IN  SynLoop(SynExpandToken(expanded, token), todo \ {token})

\* QueryEngine.synonyms: the expanded tokens
synonyms(base_tokens) == SynLoop(base_tokens, base_tokens)

RECURSIVE Lcs(_, _)
\* the length of a longest common subsequence
Lcs(a, b) ==
  IF a = <<>> \/ b = <<>> THEN 0
  ELSE IF Head(a) = Head(b) THEN 1 + Lcs(Tail(a), Tail(b))
       ELSE LET x == Lcs(Tail(a), b)
                y == Lcs(a, Tail(b))
            IN  IF x >= y THEN x ELSE y

\* rapidfuzz fuzz.ratio as the fraction <<numerator, denominator>> of 100:
\* the normalized Indel similarity 2 * lcs / (len(a) + len(b))
RatioNum(a, b) == 2 * Lcs(a, b)
RatioDen(a, b) == Len(a) + Len(b)

\* ratio >= threshold (percent)
RatioAtLeast(a, b, percent) == 100 * RatioNum(a, b) >= percent * RatioDen(a, b)

\* ratio(a, x) > ratio(a, y)
RatioGreater(a, x, y) ==
  RatioNum(a, x) * RatioDen(a, y) > RatioNum(a, y) * RatioDen(a, x)

\* score / 100.0, in thousandths
Similarity(a, b) == (1000 * RatioNum(a, b)) \div RatioDen(a, b)

RECURSIVE ExtractTop(_, _, _)
\* rapidfuzz process.extract: the limit best choices by ratio, descending,
\* choices of equal ratio in the order of the list
ExtractTop(token, choices, limit) ==
  IF choices = <<>> \/ limit = 0 THEN <<>>
  ELSE LET top == CHOOSE i \in DOMAIN choices :
                    /\ \A j \in DOMAIN choices :
                         ~RatioGreater(token, choices[j], choices[i])
                    /\ \A j \in 1..(i - 1) :
                         RatioGreater(token, choices[i], choices[j])
       IN  <<choices[top]>> \o
           ExtractTop(token, SubSeq(choices, 1, top - 1) \o
                             SubSeq(choices, top + 1, Len(choices)), limit - 1)

\* QueryEngine.get_closest_token (limit=3, score_threshold=80):
\* a sequence of <<match, similarity>>
get_closest_token(token, index_tokens) ==
  LET matches == ExtractTop(token, index_tokens, 3)
      kept == SelectSeqBy(matches,
                {m \in Range(matches) : RatioAtLeast(token, m, FUZZY_SCORE_THRESHOLD)})
  IN  [i \in DOMAIN kept |-> <<kept[i], Similarity(token, kept[i])>>]

RECURSIVE SetToSeq(_)
\* the elements of a finite set in some fixed order
SetToSeq(S) ==
  IF S = {} THEN <<>>
  ELSE LET x == CHOOSE y \in S : TRUE IN <<x>> \o SetToSeq(S \ {x})

\* the fields of a posting that the inner loop of search scores
ScoredFields(posting) ==
  SetToSeq({f \in posting.fields :
              f \in DOMAIN posting.tf_by_field /\ posting.tf_by_field[f] > 0})

\* contribution = weight * field_tf * idf, with the fuzzy penalties
Contribution(field, posting, idf_eff, similarity) ==
  LET c == FieldWeight(field) * posting.tf_by_field[field] * idf_eff
  IN  IF similarity < ExactSimilarity
      THEN IF field = "description"
           THEN (c * FUZZY_DESCRIPTION_PENALTY) \div 10
           ELSE IF field # "title"
                THEN (c * FUZZY_NON_TITLE_PENALTY) \div 10
                ELSE c
      ELSE c

Explanation(token, field, posting, idf_eff, similarity) ==
  [ token |-> token, field |-> field, weight |-> FieldWeight(field),
    tf_by_field |-> posting.tf_by_field[field], idf |-> idf_eff,
    similarity |-> similarity,
    contribution |-> Contribution(field, posting, idf_eff, similarity) ]

\* the loops over postings and fields for one (match_token, similarity);
\* st is [scores, explanations, fuzzy_budget]
ScoreMatch(st, ix, token, match_token, similarity, debug) ==
  LET postings == lookup(ix, match_token)
      idf_eff == (idf(ix, match_token) * similarity) \div 1000
      docs == DOMAIN st.scores \cup DOMAIN postings
      old(d) == IF d \in DOMAIN st.scores THEN st.scores[d] ELSE 0
      oldExp(d) == IF d \in DOMAIN st.explanations THEN st.explanations[d]
                   ELSE <<>>
      gain(d) ==
        IF d \in DOMAIN postings
        THEN LET fs == ScoredFields(postings[d])
             IN  SumSeq([i \in DOMAIN fs |->
                   Contribution(fs[i], postings[d], idf_eff, similarity)])
        ELSE 0
      newExp(d) ==
        IF d \in DOMAIN postings
        THEN LET fs == ScoredFields(postings[d])
             IN  [i \in DOMAIN fs |->
                   Explanation(token, fs[i], postings[d], idf_eff, similarity)]
        ELSE <<>>
  IN  [ st EXCEPT
          !.scores = [d \in docs |-> old(d) + gain(d)],
          !.explanations =
             IF debug THEN [d \in docs |-> oldExp(d) \o newExp(d)] ELSE @ ]

RECURSIVE ScoreMatches(_, _, _, _, _)
\* for match_token, similarity in token_matches
ScoreMatches(st, ix, token, token_matches, debug) ==
  IF token_matches = <<>> THEN st
  ELSE The({ ScoreMatches(st1, ix, token, Tail(token_matches), debug) :
               st1 \in {ScoreMatch(st, ix, token, Head(token_matches)[1],
                                   Head(token_matches)[2], debug)} })

\* the body of the loop over expanded_tokens in QueryEngine.search
ScoreToken(st, ix, token, base_tokens, debug) ==
  IF token \in DOMAIN ix.index
  THEN ScoreMatches(st, ix, token, << <<token, ExactSimilarity>> >>, debug)
  ELSE IF \/ token \notin base_tokens
          \/ IsDigit(token)
          \/ Len(token) < FUZZY_MIN_TOKEN_LEN
          \/ st.fuzzy_budget <= 0
       THEN st
       ELSE The({ IF candidates = <<>> THEN st
                  ELSE ScoreMatches(
                         [st EXCEPT !.fuzzy_budget = st.fuzzy_budget - 1],
                         ix, token, get_closest_token(token, candidates), debug) :
                    candidates \in {fuzzy_candidates(ix, token, 300)} })

RECURSIVE ScoreTokens(_, _, _, _, _)
\* for token in expanded_tokens, in the order the set is iterated in
ScoreTokens(st, ix, order, base_tokens, debug) ==
  IF order = <<>> THEN st
  ELSE The({ ScoreTokens(st1, ix, Tail(order), base_tokens, debug) :
               st1 \in {ScoreToken(st, ix, Head(order), base_tokens, debug)} })

\* item precedes other in the order of the key (-score, doc_id)
RanksBefore(item, other) ==
  \/ item.score > other.score
  \/ item.score = other.score /\ item.doc_id < other.doc_id

RECURSIVE SortRanked(_)
\* list.sort(key=lambda x: (-score, doc_id)): a stable sort
SortRanked(items) ==
  IF items = <<>> THEN <<>>
  ELSE LET top == CHOOSE i \in DOMAIN items :
                    /\ \A j \in DOMAIN items : ~RanksBefore(items[j], items[i])
                    /\ \A j \in 1..(i - 1) : RanksBefore(items[i], items[j])
       IN  <<items[top]>> \o
           SortRanked(SubSeq(items, 1, top - 1) \o
                      SubSeq(items, top + 1, Len(items)))

\* the result item of one ranked document
RenderItem(ix, doc_id, score, explanations, debug) ==
  LET doc == ix.documents[doc_id]
      item == [ doc_id |-> doc_id, title |-> doc.title,
                director |-> doc.director, cast |-> doc.cast,
                year |-> doc.year, rating |-> doc.rating ]
  IN  IF debug
      THEN item @@ [ score |-> score,
                     explanations |-> IF doc_id \in DOMAIN explanations
                                      THEN explanations[doc_id] ELSE <<>> ]
      ELSE item

\* a ranking that leaves out the documents whose score is not positive
RankedResultsPositive(ix, st, debug) ==
  LET docs == SetToSeq({d \in DOMAIN st.scores : st.scores[d] > 0})
      ranked_docs == SortRanked([i \in DOMAIN docs |->
                        [doc_id |-> docs[i], score |-> st.scores[docs[i]]]])
  IN  [i \in DOMAIN ranked_docs |->
         RenderItem(ix, ranked_docs[i].doc_id, ranked_docs[i].score,
                    st.explanations, debug)]

\* the end of QueryEngine.search: the ranking of the scored documents and
\* the result items
RankedResults(ix, st, debug) ==
  LET docs == SetToSeq(DOMAIN st.scores)
      ranked_docs == SortRanked([i \in DOMAIN docs |->
                        [doc_id |-> docs[i], score |-> st.scores[docs[i]]]])
  IN  [i \in DOMAIN ranked_docs |->
         RenderItem(ix, ranked_docs[i].doc_id, ranked_docs[i].score,
                    st.explanations, debug)]

\* QueryEngine.search with the expanded tokens iterated in the given order
SearchInOrder(ix, base_tokens, order, debug) ==
  The({ RankedResults(ix, st, debug) :
          st \in {ScoreTokens([ scores |-> EmptyMap, explanations |-> EmptyMap,
                                fuzzy_budget |-> FUZZY_MAX_TOKENS_PER_QUERY ],
                              ix, order, base_tokens, debug)} })

\* QueryEngine.search
EngineSearch(ix, query_string, debug) ==
  The({ IF query_string = <<>> \/ tokens = <<>> THEN <<>>
        ELSE SearchInOrder(ix, Range(tokens), SetToSeq(synonyms(Range(tokens))),
                           debug) :
          tokens \in {tokenize(query_string)} })

(***************************************************************************)
(* app/core/search_service.py, app/api/routes/internal_search.py,          *)
(* app/api/errors.py                                                       *)
(***************************************************************************)
\* SearchService.__init__
NewSearchService(shard_id, num_shards) ==
  [indexer |-> NewIndexer, shard_id |-> shard_id, num_shards |-> num_shards]

\* a load_data that filters nothing
RetainedMoviesAll(movies, shard_id, num_shards) == movies

\* the documents a shard retains in SearchService.load_data
RetainedMovies(movies, shard_id, num_shards) ==
  IF num_shards > 1
  THEN SelectSeqBy(movies,
         {m \in Range(movies) : m.id % num_shards = shard_id})
  ELSE movies

\* SearchService.load_data
load_data(svc, movies) ==
  [svc EXCEPT !.indexer =
     build(svc.indexer, RetainedMovies(movies, svc.shard_id, svc.num_shards),
           IndexedFields)]

\* the SearchResult that SearchService.search makes of an engine item
ToSearchResult(r, debug) ==
  [ doc_id |-> r.doc_id, title |-> r.title, director |-> r.director,
    cast |-> r.cast, year |-> r.year, rating |-> r.rating,
    score |-> IF debug /\ "score" \in DOMAIN r THEN Some(r.score) ELSE NoValue,
    explanations |-> IF debug /\ "explanations" \in DOMAIN r
                     THEN Some(r.explanations) ELSE NoValue ]

\* a search that looks at the query and the page before the index
ServiceSearchQueryFirst(svc, query, page, page_size, debug) ==
  IF StripIsEmpty(query) \/ page < 1 THEN [error |-> "INVALID_QUERY"]
  ELSE IF svc.indexer.total_documents = 0 THEN [error |-> "INDEX_NOT_READY"]
  ELSE [ error |-> None,
         response |-> [ query |-> query, total_hits |-> 0, page |-> page,
                        page_size |-> page_size, results |-> <<>> ] ]

\* SearchService.search: [error |-> None, response |-> the SearchResponse], or
\* [error |-> code] when a SearchError is raised
ServiceSearch(svc, query, page, page_size, debug) ==
  IF svc.indexer.total_documents = 0 THEN [error |-> "INDEX_NOT_READY"]
  ELSE IF StripIsEmpty(query) THEN [error |-> "INVALID_QUERY"]
  ELSE IF page < 1 THEN [error |-> "INVALID_QUERY"]
  ELSE The({
         LET start == (page - 1) * page_size
             end == start + page_size
             page_results == Slice(raw_results, start, end)
         IN  [ error |-> None,
               response |->
                 [ query |-> query, total_hits |-> Len(raw_results),
                   page |-> page, page_size |-> page_size,
                   results |-> [i \in DOMAIN page_results |->
                                  ToSearchResult(page_results[i], debug)] ] ] :
           raw_results \in {EngineSearch(svc.indexer, query, debug)} })

\* an endpoint that passes the debug of the request on to the search
internal_search_client_debug(svc, body) ==
  The({ IF out.error # None
        THEN [ status_code |-> 400,
               json |-> [status |-> "error", error |-> [code |-> out.error]] ]
        ELSE [ status_code |-> 200,
               json |-> [ query |-> out.response.query,
                          total_hits |-> out.response.total_hits,
                          page |-> out.response.page,
                          page_size |-> out.response.page_size,
                          logical_shard |-> svc.shard_id,
                          results |-> out.response.results ] ] :
          out \in {ServiceSearch(svc, body.q, body.page, body.page_size,
                                 body.debug)} })

\* POST /internal/search with search_error_handler: the HTTP response
internal_search(svc, body) ==
  The({ IF out.error # None
        THEN [ status_code |-> 400,
               json |-> [status |-> "error", error |-> [code |-> out.error]] ]
        ELSE [ status_code |-> 200,
               json |-> [ query |-> out.response.query,
                          total_hits |-> out.response.total_hits,
                          page |-> out.response.page,
                          page_size |-> out.response.page_size,
                          logical_shard |-> svc.shard_id,
                          results |-> out.response.results ] ] :
          out \in {ServiceSearch(svc, body.q, body.page, body.page_size, TRUE)} })

(***************************************************************************)
(* app/coordinator_main.py                                                 *)
(***************************************************************************)
SUSPECT_AFTER_FAILURES == 2
DOWN_AFTER_FAILURES == 5
RETRY_ONCE == TRUE

_RETRYABLE_EXCEPTIONS ==
  {"ConnectTimeout", "ReadTimeout", "ConnectError", "RemoteProtocolError"}

\* the exceptions a POST raises in the model: one retryable, one not
PostExceptions == {"ConnectError", "WriteError"}

\* SHARD_GROUPS = "0=u1,u2;1=u3": shard id and replicas, in dict order
ShardGroups ==
  << [shard_id |-> 0, replicas |-> <<"u1", "u2">>],
     [shard_id |-> 1, replicas |-> <<"u3">>] >>

Groups == DOMAIN ShardGroups

Replicas == UNION {Range(ShardGroups[g].replicas) : g \in Groups}

\* the shard node behind a replica URL: SHARD_ID and NUM_SHARDS of its process
ShardIdOf(rep) ==
  ShardGroups[CHOOSE g \in Groups : rep \in Range(ShardGroups[g].replicas)].shard_id

NumShards == Len(ShardGroups)

\* ReplicaState()
\* a replica record that starts as up and ready
NewReplicaStateUp ==
  [ status |-> "up", consecutive_failures |-> 0,
    last_seen_ts |-> NoValue, last_rtt_ms |-> NoValue, ready |-> TRUE ]

NewReplicaState ==
  [ status |-> "suspect", consecutive_failures |-> 0,
    last_seen_ts |-> NoValue, last_rtt_ms |-> NoValue, ready |-> FALSE ]

\* _init_membership
_init_membership == [rep \in Replicas |-> NewReplicaState]

\* the status update at the end of one replica's turn in _heartbeat_loop
StatusOf(consecutive_failures) ==
  IF consecutive_failures >= DOWN_AFTER_FAILURES THEN "down"
  ELSE IF consecutive_failures >= SUSPECT_AFTER_FAILURES THEN "suspect"
  ELSE "up"

_replica_priority(status) ==
  IF status = "up" THEN 0 ELSE IF status = "suspect" THEN 1 ELSE 2

\* an attempt order that leaves out the replicas that are down
OrderedReplicasSkipsDown(replicas, table) ==
  Concat([p \in 1..2 |->
    SelectSeqBy(replicas,
      {r \in Range(replicas) : _replica_priority(table[r].status) = p - 1})])

\* an attempt order that is the configured order
OrderedReplicasAsConfigured(replicas, table) == replicas

\* sorted(replicas, key=priority of the membership status): a stable sort
OrderedReplicas(replicas, table) ==
  Concat([p \in 1..3 |->
    SelectSeqBy(replicas,
      {r \in Range(replicas) : _replica_priority(table[r].status) = p - 1})])

VARIABLES
  corpus,      \* the corpus file every shard node loads
  svc,         \* replica -> its SearchService (app.state.search_service)
  is_ready,    \* replica -> app.state.is_ready of the shard node
  membership,  \* coordinator: app.state.membership
  pc,          \* coordinator: where the search handler is
  req,         \* coordinator: the parameters of the search in progress
  tasks,       \* coordinator: group -> the state of its query_shard_group
  resp,        \* coordinator: the APIResponse of the search
  clock,       \* coordinator: the heartbeat ticks completed (time.time())
  readyResp,   \* coordinator: the status code GET /ready answered with since
               \* the last heartbeat tick, 0 if it was not asked
  shardCall,   \* shard node: the last call of SearchService.search
  hb,          \* coordinator: the lifespan and its heartbeat task (hb_task)
  router       \* router: app.state of the router process and its requests

vars ==
  <<corpus, svc, is_ready, membership, pc, req, tasks, resp, readyResp, clock,
    shardCall, hb, router>>

\* the heartbeat task of a coordinator and the router are not part of these
\* specifications
otherVars == <<hb, router>>

shardVars == <<corpus, svc, is_ready>>
searchVars == <<pc, req, tasks, resp>>

(***************************************************************************)
(* The shard node's start-up (app/shard_main.py lifespan)                  *)
(***************************************************************************)
StartedService(rep, movies) ==
  load_data(NewSearchService(ShardIdOf(rep), NumShards), movies)

(***************************************************************************)
(* query_shard_group: one task per shard group.  A task is                 *)
(*   ordered   the replicas in attempt order                               *)
(*   idx       the position in ordered of the replica being attempted      *)
(*   posts     the number of POSTs sent to that replica so far             *)
(*   attempts  the attempt records                                         *)
(*   done, ok, chosen_replica, response_json   the returned dict           *)
(***************************************************************************)
Payload(r) ==
  [q |-> r.q, page |-> r.page, page_size |-> r.page * r.page_size,
   debug |-> r.debug]

\* a loop that returns its last replica as the chosen one when all failed
NextReplicaKeepsLast(t, attempt) ==
  IF t.idx < Len(t.ordered)
  THEN [t EXCEPT !.attempts = Append(@, attempt), !.idx = @ + 1, !.posts = 1]
  ELSE [t EXCEPT !.attempts = Append(@, attempt), !.posts = 0, !.done = TRUE,
                 !.ok = FALSE, !.chosen_replica = t.ordered[t.idx]]

\* a loop that gives up the shard group after the first failed replica
NextReplicaGivesUp(t, attempt) ==
  [t EXCEPT !.attempts = Append(@, attempt), !.posts = 0, !.done = TRUE,
            !.ok = FALSE, !.chosen_replica = None]

\* a loop that sends the request to the next replica without waiting for
\* the end of the attempt on the current one
NextReplicaNoWait(t, attempt) ==
  IF t.idx < Len(t.ordered)
  THEN [t EXCEPT !.idx = @ + 1, !.posts = 1]
  ELSE [t EXCEPT !.attempts = Append(@, attempt), !.posts = 0, !.done = TRUE,
                 !.ok = FALSE, !.chosen_replica = None]

\* the task after the attempt on the current replica failed: the loop goes
\* on to the next replica, or returns ok=False after the last one
NextReplica(t, attempt) ==
  IF t.idx < Len(t.ordered)
  THEN [t EXCEPT !.attempts = Append(@, attempt), !.idx = @ + 1, !.posts = 1]
  ELSE [t EXCEPT !.attempts = Append(@, attempt), !.posts = 0, !.done = TRUE,
                 !.ok = FALSE, !.chosen_replica = None]

\* the task when query_shard_group starts: the first POST is sent
StartTask(g, table) ==
  LET ordered == OrderedReplicas(ShardGroups[g].replicas, table)
  IN  [ shard_id |-> ShardGroups[g].shard_id, ordered |-> ordered,
        idx |-> 1, posts |-> IF ordered = <<>> THEN 0 ELSE 1,
        attempts |-> <<>>, done |-> ordered = <<>>, ok |-> FALSE,
        chosen_replica |-> None, response_json |-> NoValue ]

\* a loop that goes on to the replicas left after a 200
AfterResponseTriesOn(t, r, table) ==
  IF r.status_code = 200 /\ t.idx = Len(t.ordered)
  THEN [t EXCEPT !.attempts =
                   Append(@, [ replica |-> t.ordered[t.idx], ok |-> TRUE,
                               status_code |-> 200,
                               replica_status |-> table[t.ordered[t.idx]].status ]),
                 !.posts = 0, !.done = TRUE, !.ok = TRUE,
                 !.chosen_replica = t.ordered[t.idx], !.response_json = r.json]
  ELSE NextReplica(t, [ replica |-> t.ordered[t.idx],
                        ok |-> r.status_code = 200,
                        status_code |-> r.status_code,
                        replica_status |-> table[t.ordered[t.idx]].status ])

\* the task after the POST in flight returned the HTTP response r
AfterResponse(t, r, table) ==
  LET rep == t.ordered[t.idx]
      attempt == [ replica |-> rep, ok |-> r.status_code = 200,
                   status_code |-> r.status_code,
                   replica_status |-> table[rep].status ]
  IN  IF r.status_code = 200
      THEN [t EXCEPT !.attempts = Append(@, attempt), !.posts = 0,
                     !.done = TRUE, !.ok = TRUE, !.chosen_replica = rep,
                     !.response_json = r.json]
      ELSE NextReplica(t, attempt)

\* a retry after every exception of the first POST
RetriesAlways(t, e) == t.posts = 1

\* _post_with_retry: whether exception e of the POST in flight is answered
\* by the second POST
Retries(t, e) == t.posts = 1 /\ e \in _RETRYABLE_EXCEPTIONS /\ RETRY_ONCE

\* the task after the POST in flight raised exception e
AfterException(t, e, table) ==
  LET rep == t.ordered[t.idx]
      attempt == [ replica |-> rep, ok |-> FALSE, error |-> e,
                   replica_status |-> table[rep].status ]
  IN  IF Retries(t, e) THEN [t EXCEPT !.posts = 2]
      ELSE NextReplica(t, attempt)

(***************************************************************************)
(* The search handler of the coordinator: merge and response               *)
(***************************************************************************)
\* the dicts of shard_results: response_json of the groups that are ok,
\* in the order of shard_call_results (the order of the tasks)
ShardResults(ts) ==
  LET okGroups == SelectSeqBy([g \in Groups |-> g], {g \in Groups : ts[g].ok})
  IN  [i \in DOMAIN okGroups |-> ts[okGroups[i]].response_json]

ShardMeta(ts) ==
  [g \in Groups |->
     [ shard_id |-> ts[g].shard_id, ok |-> ts[g].ok,
       chosen_replica |-> ts[g].chosen_replica, attempts |-> ts[g].attempts ]]

\* every item of every shard result, in order
ReturnedItems(shard_results) ==
  Concat([i \in DOMAIN shard_results |-> shard_results[i].results])

\* merged_results before the sort: (score, doc_id, item) of every item
MergedResults(shard_results) ==
  LET items == ReturnedItems(shard_results)
  IN  [i \in DOMAIN items |->
         [score |-> items[i].score[1], doc_id |-> items[i].doc_id,
          item |-> items[i]]]

\* merged_results left in the order in which the shard results were appended
SortMergedAsAppended(merged) == merged

\* merged_results.sort(key=lambda x: (-x[0], x[1]))
SortMerged(merged) == SortRanked(merged)

\* a result item that carries its score whatever debug is
CoordResultWithScore(m, debug) ==
  [ doc_id |-> m.doc_id, title |-> m.item.title, director |-> m.item.director,
    cast |-> m.item.cast, year |-> m.item.year, rating |-> m.item.rating,
    score |-> Some(m.score),
    explanations |-> IF debug THEN m.item.explanations ELSE NoValue ]

\* the SearchResult of one item of the page
CoordResult(m, debug) ==
  [ doc_id |-> m.doc_id, title |-> m.item.title, director |-> m.item.director,
    cast |-> m.item.cast, year |-> m.item.year, rating |-> m.item.rating,
    score |-> IF debug THEN Some(m.score) ELSE NoValue,
    explanations |-> IF debug THEN m.item.explanations ELSE NoValue ]

\* a total that counts the items the shards returned
TotalHitsReturned(shard_results) ==
  SumSeq([i \in DOMAIN shard_results |-> Len(shard_results[i].results)])

\* total_hits = sum(sr.get("total_hits", 0) for sr in shard_results)
TotalHits(shard_results) ==
  SumSeq([i \in DOMAIN shard_results |-> shard_results[i].total_hits])

\* a status that ignores the failed groups
ResponseStatusOk(errors) == "ok"

\* status = "ok" if not errors else "partial"
ResponseStatus(errors) == IF errors = {} THEN "ok" ELSE "partial"

\* the part of search after asyncio.gather: the HTTP response.
\* float(None) raises: an item without a score ends the request in a 500.
SearchResponse(r, ts) ==
  LET shard_results == ShardResults(ts)
      total_hits == TotalHits(shard_results)
      merged == MergedResults(shard_results)
      start == (r.page - 1) * r.page_size
      end == start + r.page_size
      page_items == Slice(SortMerged(merged), start, end)
      errors == {g \in Groups : ~ts[g].ok}
      items == ReturnedItems(shard_results)
  IN  IF \E i \in DOMAIN items : items[i].score = NoValue
      THEN [http_status |-> 500]
      ELSE [ http_status |-> 200,
             status |-> ResponseStatus(errors),
             data |-> [ query |-> r.q, total_hits |-> total_hits,
                        page |-> r.page, page_size |-> r.page_size,
                        results |-> [i \in DOMAIN page_items |->
                                       CoordResult(page_items[i], r.debug)] ],
             meta |-> [ page |-> r.page, page_size |-> r.page_size,
                        total_hits |-> total_hits, shards |-> ShardMeta(ts) ],
             error |-> None ]

(***************************************************************************)
(* The heartbeat: one replica's turn in the loop over the probe results    *)
(***************************************************************************)
\* a probe result: 200, another status, or an exception; rtt_ms of a response
ProbeResults ==
  {[kind |-> "ok", rtt_ms |-> 1], [kind |-> "not_ready", rtt_ms |-> 1],
   [kind |-> "exception", rtt_ms |-> 0]}

\* a probe result applied to the counters, the status left as it was
ApplyProbeStaleStatus(state, res, now) ==
  IF res.kind = "exception"
  THEN [state EXCEPT !.consecutive_failures = @ + 1, !.ready = FALSE]
  ELSE IF res.kind = "ok"
  THEN [state EXCEPT !.consecutive_failures = 0, !.last_seen_ts = Some(now),
                     !.last_rtt_ms = Some(res.rtt_ms), !.ready = TRUE]
  ELSE [state EXCEPT !.consecutive_failures = @ + 1, !.ready = FALSE,
                     !.last_rtt_ms = Some(res.rtt_ms)]

\* a probe update in which a non-200 answer leaves last_rtt_ms as it was
ApplyProbeKeepsRtt(state, res, now) ==
  LET counted ==
        IF res.kind = "ok"
        THEN [state EXCEPT !.consecutive_failures = 0,
                           !.last_seen_ts = Some(now),
                           !.last_rtt_ms = Some(res.rtt_ms), !.ready = TRUE]
        ELSE [state EXCEPT !.consecutive_failures = @ + 1, !.ready = FALSE]
  IN  [counted EXCEPT !.status = StatusOf(counted.consecutive_failures)]

\* a probe update in which a failed probe leaves ready as it was
ApplyProbeKeepsReady(state, res, now) ==
  LET counted ==
        IF res.kind = "exception"
        THEN [state EXCEPT !.consecutive_failures = @ + 1]
        ELSE IF res.kind = "ok"
        THEN [state EXCEPT !.consecutive_failures = 0,
                           !.last_seen_ts = Some(now),
                           !.last_rtt_ms = Some(res.rtt_ms), !.ready = TRUE]
        ELSE [state EXCEPT !.consecutive_failures = @ + 1,
                           !.last_rtt_ms = Some(res.rtt_ms)]
  IN  [counted EXCEPT !.status = StatusOf(counted.consecutive_failures)]

ApplyProbe(state, res, now) ==
  LET counted ==
        IF res.kind = "exception"
        THEN [state EXCEPT !.consecutive_failures = @ + 1, !.ready = FALSE]
        ELSE IF res.kind = "ok"
        THEN [state EXCEPT !.consecutive_failures = 0,
                           !.last_seen_ts = Some(now),
                           !.last_rtt_ms = Some(res.rtt_ms), !.ready = TRUE]
        ELSE [state EXCEPT !.consecutive_failures = @ + 1, !.ready = FALSE,
                           !.last_rtt_ms = Some(res.rtt_ms)]
  IN  [counted EXCEPT !.status = StatusOf(counted.consecutive_failures)]

\* a readiness that one ready shard group is enough for
ReadyStatusAnyGroup(table) ==
  IF \E g \in Groups : \E rep \in Range(ShardGroups[g].replicas) :
       table[rep].ready /\ table[rep].status # "down"
  THEN 200 ELSE 503

\* GET /ready of the coordinator: the status code
ReadyStatus(table) ==
  LET any_ready(g) ==
        \E i \in DOMAIN ShardGroups[g].replicas :
          LET rep == ShardGroups[g].replicas[i]
          IN  /\ rep \in DOMAIN table
              /\ table[rep].ready
              /\ table[rep].status # "down"
      not_ready_groups == {g \in Groups : ~any_ready(g)}
  IN  IF not_ready_groups # {} THEN 503 ELSE 200

(***************************************************************************)
(* Inputs                                                                  *)
(***************************************************************************)
QEmpty == <<>>
QBlank == <<" ", " ">>
QTom == <<"T", "o", "m">>
QTopGun == <<"t", "o", "p", " ", "g", "u", "n", "!">>

Queries == {QEmpty, QBlank, QTom, QTopGun}

\* GET /search of the coordinator: 2 <= len(q) <= 100, page >= 1,
\* 1 <= page_size <= 50
CoordQueries == {q \in Queries : Len(q) >= 2 /\ Len(q) <= 100}
CoordPages == 1..MaxPage
CoordPageSizes == {n \in 1..MaxPageSize : n <= 50}

\* membership entries the heartbeat produces: after one answered probe, and
\* after DOWN_AFTER_FAILURES probes that raised
UpState == ApplyProbe(NewReplicaState, [kind |-> "ok", rtt_ms |-> 1], 1)

RECURSIVE FailedProbes(_, _)
FailedProbes(state, n) ==
  IF n = 0 THEN state
  ELSE FailedProbes(ApplyProbe(state, [kind |-> "exception", rtt_ms |-> 0], n),
                    n - 1)

DownState == FailedProbes(NewReplicaState, DOWN_AFTER_FAILURES)

\* after an answered probe and then SUSPECT_AFTER_FAILURES probes that raised
SuspectState == FailedProbes(UpState, SUSPECT_AFTER_FAILURES)

\* the membership tables a search starts from: the table of _init_membership,
\* the tables in which the replicas of the first shard group are up or down
\* and every other replica is up, and two tables with a suspect replica in
\* the first shard group
SearchMemberships ==
  {_init_membership} \cup
  {[rep \in Replicas |-> IF rep \in D THEN DownState ELSE UpState] :
     D \in SUBSET Range(ShardGroups[1].replicas)} \cup
  {[rep \in Replicas |->
      IF rep = ShardGroups[1].replicas[1] THEN pair[1]
      ELSE IF rep = ShardGroups[1].replicas[2] THEN pair[2] ELSE UpState] :
     pair \in {<<DownState, SuspectState>>, <<SuspectState, UpState>>}}

(***************************************************************************)
(* Spec: one coordinator over started shard nodes.  The membership table   *)
(* is written by the heartbeat task alone, and a search reads it; here it  *)
(* is any of SearchMemberships and the searches run against it.            *)
(***************************************************************************)
Init ==
  /\ corpus = SubSeq(Catalogue, 1, MaxDocId)
  /\ svc = [rep \in Replicas |-> StartedService(rep, corpus)]
  /\ is_ready = [rep \in Replicas |-> TRUE]
  /\ membership \in SearchMemberships
  /\ pc = "idle"
  /\ req = NoValue
  /\ tasks = NoValue
  /\ resp = NoValue
  /\ readyResp = 0
  /\ clock = 0
  /\ shardCall = [called |-> FALSE]
  /\ hb = NoValue
  /\ router = NoValue

\* search, up to asyncio.gather: the tasks start and each sends its first POST
SearchStart(q, page, page_size, debug) ==
  /\ pc \in {"idle", "responded"}
  /\ pc' = "gather"
  /\ req' = [q |-> q, page |-> page, page_size |-> page_size, debug |-> debug]
  /\ tasks' = [g \in Groups |-> StartTask(g, membership)]
  /\ resp' = NoValue
  /\ UNCHANGED <<otherVars, shardVars, membership, readyResp, clock, shardCall>>

InFlight(g) == pc = "gather" /\ ~tasks[g].done

\* the replica answers the POST in flight of group g
PostReturns(g) ==
  /\ InFlight(g)
  /\ LET rep == tasks[g].ordered[tasks[g].idx]
     IN  /\ is_ready[rep]
         /\ tasks' = [tasks EXCEPT ![g] =
              AfterResponse(@, internal_search(svc[rep], Payload(req)),
                            membership)]
  /\ UNCHANGED <<otherVars, shardVars, membership, pc, req, resp, readyResp, clock,
                 shardCall>>

\* a failed POST that also counts a failure of the replica in the membership
PostRaisesMarksReplica(g, e) ==
  /\ pc = "gather" /\ ~tasks[g].done
  /\ tasks' = [tasks EXCEPT ![g] = AfterException(@, e, membership)]
  /\ membership' =
       [membership EXCEPT
          ![tasks[g].ordered[tasks[g].idx]].consecutive_failures = @ + 1]
  /\ UNCHANGED <<otherVars, shardVars, pc, req, resp, readyResp, clock, shardCall>>

\* the POST in flight of group g raises e
PostRaises(g, e) ==
  /\ InFlight(g)
  /\ tasks' = [tasks EXCEPT ![g] = AfterException(@, e, membership)]
  /\ UNCHANGED <<otherVars, shardVars, membership, pc, req, resp, readyResp, clock,
                 shardCall>>

\* search, after asyncio.gather returned: merge and respond
SearchRespond ==
  /\ pc = "gather"
  /\ \A g \in Groups : tasks[g].done
  /\ pc' = "responded"
  /\ resp' = SearchResponse(req, tasks)
  /\ UNCHANGED <<otherVars, shardVars, membership, req, tasks, readyResp, clock,
                 shardCall>>

Next ==
  \/ \E q \in CoordQueries, page \in CoordPages, page_size \in CoordPageSizes,
        debug \in BOOLEAN : SearchStart(q, page, page_size, debug)
  \/ \E g \in Groups : PostReturns(g)
  \/ \E g \in Groups, e \in PostExceptions : PostRaises(g, e)
  \/ SearchRespond

Spec == Init /\ [][Next]_vars

(***************************************************************************)
(* SpecMembership: the coordinator's heartbeat task and GET /ready.  A     *)
(* tick is the part of _heartbeat_loop after asyncio.gather returned: it   *)
(* runs without an await, hence in one step.                               *)
(***************************************************************************)
InitMembership ==
  /\ corpus = <<>>
  /\ svc = [rep \in Replicas |-> NewSearchService(ShardIdOf(rep), NumShards)]
  /\ is_ready = [rep \in Replicas |-> FALSE]
  /\ membership = _init_membership
  /\ pc = "idle"
  /\ req = NoValue
  /\ tasks = NoValue
  /\ resp = NoValue
  /\ readyResp = 0
  /\ clock = 0
  /\ shardCall = [called |-> FALSE]
  /\ hb = NoValue
  /\ router = NoValue

\* one round of _heartbeat_loop with the given probe result of every replica
HeartbeatTick(results) ==
  /\ clock < MaxTicks
  /\ clock' = clock + 1
  /\ membership' = [rep \in Replicas |->
                      ApplyProbe(membership[rep], results[rep], clock + 1)]
  /\ readyResp' = 0
  /\ UNCHANGED <<otherVars, shardVars, searchVars, shardCall>>

\* GET /ready of the coordinator
Ready ==
  /\ readyResp' = ReadyStatus(membership)
  /\ UNCHANGED <<otherVars, shardVars, searchVars, membership, clock, shardCall>>

NextMembership ==
  \/ \E results \in [Replicas -> ProbeResults] : HeartbeatTick(results)
  \/ Ready

SpecMembership == InitMembership /\ [][NextMembership]_vars

(***************************************************************************)
(* SpecShard: the shard nodes of the topology, each started over the same  *)
(* corpus file, and the calls of SearchService.search on a started node.   *)
(***************************************************************************)
Corpora == {SubSeq(Catalogue, 1, n) : n \in 0..MaxDocId}

\* the page and page_size a shard node is called with (no bound is enforced
\* on POST /internal/search)
ShardPages == 0..MaxPage
ShardPageSizes == 1..MaxPageSize

InitShard ==
  /\ corpus \in Corpora
  /\ svc = [rep \in Replicas |-> NewSearchService(ShardIdOf(rep), NumShards)]
  /\ is_ready = [rep \in Replicas |-> FALSE]
  /\ membership = _init_membership
  /\ pc = "idle"
  /\ req = NoValue
  /\ tasks = NoValue
  /\ resp = NoValue
  /\ readyResp = 0
  /\ clock = 0
  /\ shardCall = [called |-> FALSE]
  /\ hb = NoValue
  /\ router = NoValue

\* lifespan of the shard node behind rep
ShardStartup(rep) ==
  /\ ~is_ready[rep]
  /\ svc' = [svc EXCEPT ![rep] = load_data(@, corpus)]
  /\ is_ready' = [is_ready EXCEPT ![rep] = TRUE]
  /\ UNCHANGED <<otherVars, corpus, membership, searchVars, readyResp, clock, shardCall>>

\* SearchService.search on the started node behind rep
ShardSearch(rep, query, page, page_size, debug) ==
  /\ is_ready[rep]
  /\ shardCall' = [ called |-> TRUE, rep |-> rep, query |-> query,
                    page |-> page, page_size |-> page_size, debug |-> debug,
                    out |-> ServiceSearch(svc[rep], query, page, page_size,
                                          debug) ]
  /\ UNCHANGED <<otherVars, shardVars, membership, searchVars, readyResp, clock>>

NextShard ==
  \/ \E rep \in Replicas : ShardStartup(rep)
  \/ \E rep \in Replicas, query \in Queries, page \in ShardPages,
        page_size \in ShardPageSizes, debug \in BOOLEAN :
          ShardSearch(rep, query, page, page_size, debug)

SpecShard == InitShard /\ [][NextShard]_vars

(***************************************************************************)
(* SpecEngine: QueryEngine.search called on the index of a started shard   *)
(* node, as the tests of the engine call it: no validation of the query    *)
(* and no pagination.                                                      *)
(***************************************************************************)
QThe == <<"t", "h", "e">>
QTonny == <<"T", "o", "n", "n", "y">>
QZzzz == <<"z", "z", "z", "z">>
QFilm == <<"f", "i", "l", "m">>
QCafeGuns == <<"c", "a", "f", "e", " ", "g", "u", "n", "s">>

EngineQueries == Queries \cup {QThe, QTonny, QZzzz, QFilm, QCafeGuns}

\* engine.search(query, debug) on the node behind rep
EngineCall(rep, query, debug) ==
  /\ is_ready[rep]
  /\ shardCall' = [ called |-> TRUE, rep |-> rep, query |-> query,
                    debug |-> debug,
                    hits |-> EngineSearch(svc[rep].indexer, query, debug) ]
  /\ UNCHANGED <<otherVars, shardVars, membership, searchVars, readyResp, clock>>

NextEngine ==
  \/ \E rep \in Replicas : ShardStartup(rep)
  \/ \E rep \in Replicas, query \in EngineQueries, debug \in BOOLEAN :
        EngineCall(rep, query, debug)

SpecEngine == InitShard /\ [][NextEngine]_vars

(***************************************************************************)
(* SpecEngineOrder: QueryEngine.search on a started node, the set of       *)
(* expanded tokens iterated in any of its orders: the order in which a     *)
(* Python set of strings is iterated depends on the hash seed of the       *)
(* process.                                                                *)
(***************************************************************************)
\* four misspelt words, each close to a token of the index
QFour ==
  <<"w", "a", "r", "r", " ", "t", "o", "p", "p", " ",
    "t", "o", "n", "n", "y", " ", "s", "p", "y", "y">>

OrderQueries == {QTom, QTopGun, QTonny, QFour}

RECURSIVE Orders(_)
\* the sequences that list every element of S once
Orders(S) ==
  IF S = {} THEN {<<>>}
  ELSE UNION {{<<x>> \o rest : rest \in Orders(S \ {x})} : x \in S}

\* the orders the loop "for token in expanded_tokens" may take for a query
OrdersOf(query) == Orders(synonyms(Range(tokenize(query))))

\* QueryEngine.search with the expanded tokens iterated in the given order
EngineCallInOrder(rep, query, order, debug) ==
  /\ is_ready[rep]
  /\ shardCall' = [ called |-> TRUE, rep |-> rep, query |-> query,
                    debug |-> debug, order |-> order,
                    hits |-> IF order = <<>> THEN <<>>
                             ELSE SearchInOrder(svc[rep].indexer,
                                                Range(tokenize(query)),
                                                order, debug) ]
  /\ UNCHANGED <<otherVars, shardVars, membership, searchVars, readyResp,
                 clock>>

NextEngineOrder ==
  \/ \E rep \in Replicas : ShardStartup(rep)
  \/ \E rep \in Replicas, query \in OrderQueries, debug \in BOOLEAN :
       \E order \in OrdersOf(query) :
         EngineCallInOrder(rep, query, order, debug)

SpecEngineOrder == InitShard /\ [][NextEngineOrder]_vars

(***************************************************************************)
(* SpecIndexer: Indexer.build called up to MaxBuilds times on one Indexer, *)
(* the indexer of the service behind IndexerHost.  shardCall.builds is the *)
(* sequence of the batches built so far.                                   *)
(***************************************************************************)
IndexerHost == ShardGroups[1].replicas[1]

\* a record with the id of Movie1 and the content of Movie3
MovieSameId == [Movie3 EXCEPT !.id = Movie1.id]

\* the document batches a build is called with: empty, one record, two
\* records, two records that share an id, the same record twice
IndexBatches ==
  { <<>>, <<Movie1>>, <<Movie1, Movie2>>, <<Movie3, Movie4>>,
    <<Movie1, MovieSameId>>, <<Movie2, Movie2>> }

InitIndexer ==
  /\ corpus = <<>>
  /\ svc = [rep \in Replicas |-> NewSearchService(ShardIdOf(rep), NumShards)]
  /\ is_ready = [rep \in Replicas |-> FALSE]
  /\ membership = _init_membership
  /\ pc = "idle"
  /\ req = NoValue
  /\ tasks = NoValue
  /\ resp = NoValue
  /\ readyResp = 0
  /\ clock = 0
  /\ shardCall = [called |-> FALSE, builds |-> <<>>]
  /\ hb = NoValue
  /\ router = NoValue

\* indexer.build(batch, IndexedFields)
IndexerBuild(batch) ==
  /\ Len(shardCall.builds) < MaxBuilds
  /\ svc' = [svc EXCEPT ![IndexerHost].indexer =
                           build(@, batch, IndexedFields)]
  /\ shardCall' = [called |-> TRUE, builds |-> Append(shardCall.builds, batch)]
  /\ UNCHANGED <<otherVars, corpus, is_ready, membership, searchVars, readyResp, clock>>

NextIndexer == \E batch \in IndexBatches : IndexerBuild(batch)

SpecIndexer == InitIndexer /\ [][NextIndexer]_vars

(***************************************************************************)
(* SpecLookup: Indexer.lookup on a built index, and the caller's mutations *)
(* of the value it got.  Python values are references: LookupShared names  *)
(* the parts of the returned value that are objects of the index itself,   *)
(* and a mutation of such a part is a mutation of the index.               *)
(***************************************************************************)
\* a lookup that returns the field sets of the index themselves
LookupSharedFields == {"fields"}

\* lookup builds a new outer dict and a new posting dict per document, copies
\* the field set (.copy()) and tf_by_field (dict(...)); tf is an int
LookupShared == {}

LookupTokens == { <<"g", "u", "n">>, <<"t", "o", "m">>, <<"z", "z", "z", "z">> }

\* what a caller does to the returned map: add a field to the field set of
\* a posting, change a count of tf_by_field, delete or add a doc entry
LookupMutations(returned) ==
  {[kind |-> k, doc |-> d] :
     k \in {"add_field", "set_tf_by_field", "del_doc"}, d \in DOMAIN returned}
  \cup {[kind |-> "add_doc", doc |-> 0]}

\* the map doc_id -> posting after mutation m
Mutated(byDoc, m) ==
  IF m.kind = "add_doc" THEN Put(byDoc, m.doc, NewPosting)
  ELSE IF m.doc \notin DOMAIN byDoc THEN byDoc
  ELSE IF m.kind = "add_field"
       THEN [byDoc EXCEPT ![m.doc].fields = @ \cup {"hacked"}]
  ELSE IF m.kind = "set_tf_by_field"
       THEN [byDoc EXCEPT ![m.doc].tf_by_field = Put(@, "title", 99)]
  ELSE [d \in DOMAIN byDoc \ {m.doc} |-> byDoc[d]]

\* the part of the returned value that mutation m writes to
PartWritten(m) ==
  IF m.kind = "add_field" THEN "fields"
  ELSE IF m.kind = "set_tf_by_field" THEN "tf_by_field" ELSE "map"

InitLookup ==
  /\ corpus = <<>>
  /\ \E batch \in IndexBatches :
       svc = [rep \in Replicas |->
                IF rep = IndexerHost
                THEN [NewSearchService(ShardIdOf(rep), NumShards)
                        EXCEPT !.indexer = build(@, batch, IndexedFields)]
                ELSE NewSearchService(ShardIdOf(rep), NumShards)]
  /\ is_ready = [rep \in Replicas |-> FALSE]
  /\ membership = _init_membership
  /\ pc = "idle"
  /\ req = NoValue
  /\ tasks = NoValue
  /\ resp = NoValue
  /\ readyResp = 0
  /\ clock = 0
  /\ shardCall = [called |-> FALSE]
  /\ hb = NoValue
  /\ router = NoValue

\* returned = indexer.lookup(token)
IndexerLookup(token) ==
  /\ shardCall' = [ called |-> TRUE, token |-> token, mutated |-> FALSE,
                    returned |-> lookup(svc[IndexerHost].indexer, token) ]
  /\ UNCHANGED <<otherVars, shardVars, membership, searchVars, readyResp, clock>>

\* the caller mutates the value that the last lookup returned
MutateReturned(m) ==
  /\ shardCall.called
  /\ shardCall' = [shardCall EXCEPT !.returned = Mutated(@, m),
                                    !.mutated = TRUE]
  /\ svc' = IF /\ PartWritten(m) \in LookupShared
               /\ shardCall.token \in DOMAIN svc[IndexerHost].indexer.index
            THEN [svc EXCEPT ![IndexerHost].indexer.index[shardCall.token] =
                               Mutated(@, m)]
            ELSE svc
  /\ UNCHANGED <<otherVars, corpus, is_ready, membership, searchVars, readyResp, clock>>

NextLookup ==
  \/ \E token \in LookupTokens : IndexerLookup(token)
  \/ /\ shardCall.called
     /\ \E m \in LookupMutations(shardCall.returned) : MutateReturned(m)

SpecLookup == InitLookup /\ [][NextLookup]_vars

(***************************************************************************)
(* SpecTokenizer: the module search.tokenizer in one process.              *)
(* shardCall.stop_words is the module global STOP_WORDS, None at import    *)
(* and set by _get_stop_words; the other fields are the last call.         *)
(***************************************************************************)
\* the strings of up to MaxTokenLen code points over a letter alphabet with
\* a digit: among them "a", "the", "1", "11", "at", "hat"
TokenStrings ==
  UNION {[1..n -> {"a", "e", "h", "t", "1"}] : n \in 0..MaxTokenLen}

InitTokenizer ==
  /\ corpus = <<>>
  /\ svc = [rep \in Replicas |-> NewSearchService(ShardIdOf(rep), NumShards)]
  /\ is_ready = [rep \in Replicas |-> FALSE]
  /\ membership = _init_membership
  /\ pc = "idle"
  /\ req = NoValue
  /\ tasks = NoValue
  /\ resp = NoValue
  /\ readyResp = 0
  /\ clock = 0
  /\ shardCall = [called |-> FALSE, stop_words |-> NoValue]
  /\ hb = NoValue
  /\ router = NoValue

\* tokenize(text): _get_stop_words is reached unless the text is empty
TokenizeCall(text) ==
  /\ shardCall' = [ called |-> TRUE, fn |-> "tokenize", arg |-> text,
                    stop_words |-> IF text = <<>> THEN shardCall.stop_words
                                   ELSE Some(STOP_WORDS),
                    out |-> [raised |-> None, value |-> tokenize(text)] ]
  /\ UNCHANGED <<otherVars, shardVars, membership, searchVars, readyResp, clock>>

\* basic_token_filter(token)
BasicTokenFilterCall(token) ==
  /\ shardCall' = [ called |-> TRUE, fn |-> "basic_token_filter",
                    arg |-> token, stop_words |-> shardCall.stop_words,
                    out |-> basic_token_filter(shardCall.stop_words, token) ]
  /\ UNCHANGED <<otherVars, shardVars, membership, searchVars, readyResp, clock>>

NextTokenizer ==
  \/ \E text \in TokenStrings : TokenizeCall(text)
  \/ \E token \in TokenStrings : BasicTokenFilterCall(token)

SpecTokenizer == InitTokenizer /\ [][NextTokenizer]_vars

(***************************************************************************)
(* SpecDocuments: the document route (app/api/routes/documents.py) over    *)
(* the Indexer of app/core/indexer.py, which the module creates when it is *)
(* imported.  shardCall holds that Indexer and the number of requests the  *)
(* route has answered.                                                     *)
(***************************************************************************)
InitDocuments ==
  /\ corpus = <<>>
  /\ svc = [rep \in Replicas |-> NewSearchService(ShardIdOf(rep), NumShards)]
  /\ is_ready = [rep \in Replicas |-> FALSE]
  /\ membership = _init_membership
  /\ pc = "idle"
  /\ req = NoValue
  /\ tasks = NoValue
  /\ resp = NoValue
  /\ readyResp = 0
  /\ clock = 0
  /\ shardCall = [called |-> FALSE, indexer |-> NewIndexer, builds |-> 0]
  /\ hb = NoValue
  /\ router = NoValue

\* POST / with the document doc: indexer.build([doc.model_dump()], fields)
index_document(doc) ==
  /\ shardCall.builds < MaxBuilds
  /\ shardCall' = [called |-> TRUE,
                   indexer |-> build(shardCall.indexer, <<doc>>, IndexedFields),
                   builds |-> shardCall.builds + 1]
  /\ UNCHANGED <<otherVars, shardVars, membership, searchVars, readyResp,
                 clock>>

NextDocuments == \E doc \in Range(Catalogue) : index_document(doc)

SpecDocuments == InitDocuments /\ [][NextDocuments]_vars

(***************************************************************************)
(* SpecHeartbeat: the coordinator's lifespan and its heartbeat task, one   *)
(* step per resumption of a coroutine (asyncio runs one at a time).  Every *)
(* replica is in the table from _init_membership on, so the setdefault of  *)
(* the loop adds nothing.                                                  *)
(***************************************************************************)
\* the probes of a tick, none of which has completed
NoResults == [rep \in Replicas |-> NoValue]

\* a probe that completes has its update applied at once
ProbeDoneApplies(table, rep, res, now) ==
  [table EXCEPT ![rep] = ApplyProbe(@, res, now)]

\* asyncio.gather keeps the result of a probe that completed until all have
\* completed: the table is not touched
ProbeDone(table, rep, res, now) == table

\* the table after the loop over zip(bases, results)
ApplyResults(table, results, now) ==
  [rep \in Replicas |-> ApplyProbe(table[rep], results[rep][1], now)]

\* a shutdown that neither cancels nor awaits the task
LifespanExitNoCancel(h) == [h EXCEPT !.phase = "stopped"]

\* hb_task.cancel(): the task is to get CancelledError at its await
LifespanExit(h) == [h EXCEPT !.phase = "stopping", !.must_cancel = TRUE]

InitHeartbeat ==
  /\ corpus = <<>>
  /\ svc = [rep \in Replicas |-> NewSearchService(ShardIdOf(rep), NumShards)]
  /\ is_ready = [rep \in Replicas |-> FALSE]
  /\ membership = _init_membership
  /\ pc = "idle"
  /\ req = NoValue
  /\ tasks = NoValue
  /\ resp = NoValue
  /\ readyResp = 0
  /\ clock = 0
  /\ shardCall = [called |-> FALSE]
  /\ hb = [phase |-> "serving", pc |-> "start", must_cancel |-> FALSE,
           results |-> NoResults]
  /\ router = NoValue

\* the top of the loop up to the await of asyncio.gather: every probe is
\* created before the task waits
HbIssueProbes ==
  /\ hb.pc \in {"start", "sleep"}
  /\ ~hb.must_cancel
  /\ clock < MaxRounds
  /\ hb' = [hb EXCEPT !.pc = "gather", !.results = NoResults]
  /\ UNCHANGED <<shardVars, searchVars, membership, readyResp, clock,
                 shardCall, router>>

\* _heartbeat_once of one replica returns or raises
HbProbeCompletes(rep, res) ==
  /\ hb.pc = "gather"
  /\ ~hb.must_cancel
  /\ hb.results[rep] = NoValue
  /\ hb' = [hb EXCEPT !.results[rep] = Some(res)]
  /\ membership' = ProbeDone(membership, rep, res, clock + 1)
  /\ UNCHANGED <<shardVars, searchVars, readyResp, clock, shardCall, router>>

\* asyncio.gather returns: the loop over the results, up to asyncio.sleep
HbApply ==
  /\ hb.pc = "gather"
  /\ ~hb.must_cancel
  /\ \A rep \in Replicas : hb.results[rep] # NoValue
  /\ membership' = ApplyResults(membership, hb.results, clock + 1)
  /\ clock' = clock + 1
  /\ hb' = [hb EXCEPT !.pc = "sleep", !.results = NoResults]
  /\ UNCHANGED <<shardVars, searchVars, readyResp, shardCall, router>>

\* the finally of lifespan, up to "await hb_task"
LifespanShutdown ==
  /\ hb.phase = "serving"
  /\ hb' = LifespanExit(hb)
  /\ UNCHANGED <<shardVars, searchVars, membership, readyResp, clock,
                 shardCall, router>>

\* the task is resumed with CancelledError at its await (before its first
\* step, in asyncio.gather, whose probes are cancelled with it, or in
\* asyncio.sleep); nothing in the loop catches it; results keeps the probes
\* that had completed
HbCancelled ==
  /\ hb.must_cancel
  /\ hb.pc # "cancelled"
  /\ hb' = [hb EXCEPT !.pc = "cancelled", !.must_cancel = FALSE]
  /\ UNCHANGED <<shardVars, searchVars, membership, readyResp, clock,
                 shardCall, router>>

\* "await hb_task" raises CancelledError, which lifespan swallows
LifespanDone ==
  /\ hb.phase = "stopping"
  /\ hb.pc = "cancelled"
  /\ hb' = [hb EXCEPT !.phase = "stopped"]
  /\ UNCHANGED <<shardVars, searchVars, membership, readyResp, clock,
                 shardCall, router>>

NextHeartbeat ==
  \/ HbIssueProbes
  \/ \E rep \in Replicas : \E res \in ProbeResults : HbProbeCompletes(rep, res)
  \/ HbApply
  \/ LifespanShutdown
  \/ HbCancelled
  \/ LifespanDone

\* the event loop runs every task that is ready to run
SpecHeartbeat ==
  /\ InitHeartbeat
  /\ [][NextHeartbeat]_vars
  /\ WF_vars(HbCancelled)
  /\ WF_vars(LifespanDone)


(***************************************************************************)
(* SpecHeartbeatLoop: the heartbeat task left to run for ever, one step    *)
(* per tick (every probe ends within the client's timeout, and the sleep   *)
(* ends).  time.time() is the number of ticks, counted up to MaxRounds, and *)
(* no replica fails more than DOWN_AFTER_FAILURES + MaxRounds probes in a  *)
(* row, which keeps the counters finite.                                   *)
(***************************************************************************)
\* a gather without return_exceptions: the first exception of a probe is
\* raised in the loop
GatherRaisesFirst(results) ==
  \E rep \in Replicas : results[rep].kind = "exception"

\* asyncio.gather(*tasks, return_exceptions=True) returns the exceptions of
\* the probes among the results and raises none
GatherRaises(results) == FALSE

InitHeartbeatLoop ==
  /\ corpus = <<>>
  /\ svc = [rep \in Replicas |-> NewSearchService(ShardIdOf(rep), NumShards)]
  /\ is_ready = [rep \in Replicas |-> FALSE]
  /\ membership = _init_membership
  /\ pc = "idle"
  /\ req = NoValue
  /\ tasks = NoValue
  /\ resp = NoValue
  /\ readyResp = 0
  /\ clock = 0
  /\ shardCall = [called |-> FALSE]
  /\ hb = [phase |-> "serving", pc |-> "sleep", must_cancel |-> FALSE,
           results |-> NoResults]
  /\ router = NoValue

\* one iteration of the while loop: the probes, their results, the updates
HeartbeatRound(results) ==
  /\ hb.pc = "sleep"
  /\ \A rep \in Replicas :
       results[rep].kind # "ok" =>
         membership[rep].consecutive_failures < DOWN_AFTER_FAILURES + MaxRounds
  /\ IF GatherRaises(results)
     THEN /\ hb' = [hb EXCEPT !.pc = "raised"]
          /\ UNCHANGED <<membership, clock>>
     ELSE /\ hb' = [hb EXCEPT !.results = [rep \in Replicas |->
                                             Some(results[rep])]]
          /\ membership' = ApplyResults(membership, hb'.results,
                                        Min(clock + 1, MaxRounds))
          /\ clock' = Min(clock + 1, MaxRounds)
  /\ UNCHANGED <<shardVars, searchVars, readyResp, shardCall, router>>

Round == \E results \in [Replicas -> ProbeResults] : HeartbeatRound(results)

NextHeartbeatLoop == Round

\* the event loop resumes the task when its probes are over and when its
\* sleep is over
SpecHeartbeatLoop ==
  InitHeartbeatLoop /\ [][NextHeartbeatLoop]_vars /\ WF_vars(Round)

(***************************************************************************)
(* app/router_main.py                                                      *)
(***************************************************************************)
RETRY_NEXT_COORDINATOR_ONCE == TRUE

\* COORDINATOR_URLS = "c1,c2,c3"
coordinator_urls == <<"c1", "c2", "c3">>

Coordinators == Range(coordinator_urls)

\* CoordState()
NewCoordState ==
  [ ready |-> FALSE, last_seen_ts |-> NoValue, last_rtt_ms |-> NoValue,
    consecutive_failures |-> 0, inflight |-> 0, total_routed |-> 0 ]

\* one coordinator's turn in the loop of _health_loop over the probe results
ApplyCoordProbe(st, res, now) ==
  IF res.kind = "exception"
  THEN [st EXCEPT !.consecutive_failures = @ + 1, !.ready = FALSE]
  ELSE IF res.kind = "ok"
  THEN [st EXCEPT !.last_rtt_ms = Some(res.rtt_ms), !.ready = TRUE,
                  !.last_seen_ts = Some(now), !.consecutive_failures = 0]
  ELSE [st EXCEPT !.last_rtt_ms = Some(res.rtt_ms), !.ready = FALSE,
                  !.consecutive_failures = @ + 1]

\* [c for c in coords if states[c].ready]
ReadyCoords(states) ==
  SelectSeqBy(coordinator_urls, {c \in Coordinators : states[c].ready})

\* candidates = [first] and the first other ready coordinator, if there is one
Candidates(first, states) ==
  LET others == SelectSeqBy(ReadyCoords(states), Coordinators \ {first})
  IN  IF RETRY_NEXT_COORDINATOR_ONCE /\ others # <<>>
      THEN <<first, others[1]>> ELSE <<first>>

\* the top of the loop body: st.inflight += 1; st.total_routed += 1
ForwardBegins(st) ==
  [st EXCEPT !.inflight = @ + 1, !.total_routed = @ + 1]

\* a forward whose counter is taken back in the except branch only
ForwardEndsExceptOnly(st, how) ==
  IF how = "raised"
  THEN [st EXCEPT !.ready = FALSE, !.consecutive_failures = @ + 1,
                  !.inflight = @ - 1]
  ELSE st

\* the end of the try statement around the forward: it returned a response,
\* raised an Exception, or the request was cancelled at the await
\* (CancelledError passes "except Exception"); finally runs in each case
ForwardEnds(st, how) ==
  LET marked == IF how = "raised"
                THEN [st EXCEPT !.ready = FALSE, !.consecutive_failures = @ + 1]
                ELSE st
  IN  [marked EXCEPT !.inflight = @ - 1]

(***************************************************************************)
(* SpecRouter: the router over its coordinators: the health loop, a round  *)
(* in one step (the part after asyncio.gather returned has no await), and  *)
(* concurrent search requests, each a step per resumption of its handler.  *)
(***************************************************************************)
\* the search requests the router handles, possibly at the same time
RouterRequests == {"r1", "r2"}

\* the responses of a coordinator in the model: the search response, the
\* validation error of FastAPI, both with a JSON body, and the response to
\* an unhandled exception, whose body is the plain text
\* "Internal Server Error"
CoordResponses ==
  { [status_code |-> 200, is_json |-> TRUE],
    [status_code |-> 422, is_json |-> TRUE],
    [status_code |-> 500, is_json |-> FALSE] }

\* the exceptions of the try statement in the model: the forward raises
\* ConnectError, resp.json() raises JSONDecodeError
ForwardExceptions == {"ConnectError"}

IdleRequest ==
  [ pc |-> "idle", ready |-> <<>>, candidates |-> <<>>, cur |-> 0,
    resp |-> NoValue, last_err |-> None, status |-> 0, routed_to |-> None ]

InitRouter ==
  /\ corpus = <<>>
  /\ svc = [rep \in Replicas |-> NewSearchService(ShardIdOf(rep), NumShards)]
  /\ is_ready = [rep \in Replicas |-> FALSE]
  /\ membership = _init_membership
  /\ pc = "idle"
  /\ req = NoValue
  /\ tasks = NoValue
  /\ resp = NoValue
  /\ readyResp = 0
  /\ clock = 0
  /\ shardCall = [called |-> FALSE]
  /\ hb = NoValue
  /\ router = [ coord_state |-> [c \in Coordinators |-> NewCoordState],
                rr_index |-> 0,
                reqs |-> [r \in RouterRequests |-> IdleRequest] ]

\* one round of _health_loop with the given probe result of every coordinator
RouterHealthRound(results) ==
  /\ clock < MaxRounds
  /\ clock' = clock + 1
  /\ router' = [router EXCEPT !.coord_state =
                  [c \in Coordinators |->
                     ApplyCoordProbe(@[c], results[c], clock + 1)]]
  /\ UNCHANGED <<shardVars, searchVars, membership, readyResp, shardCall, hb>>

\* search of the router, up to its first await: _pick_coordinator_rr, the
\* candidates, and the forward to the first candidate is sent
RouterSearchStart(r) ==
  /\ router.reqs[r].pc = "idle"
  /\ LET states == router.coord_state
         ready == ReadyCoords(states)
     IN  IF ready = <<>>
         THEN router' = [router EXCEPT !.reqs[r] =
                           [IdleRequest EXCEPT !.pc = "done", !.status = 503]]
         ELSE LET first == ready[(router.rr_index % Len(ready)) + 1]
              IN  router' =
                    [router EXCEPT
                       !.rr_index = @ + 1,
                       !.coord_state[first] = ForwardBegins(@),
                       !.reqs[r] =
                          [IdleRequest EXCEPT
                             !.pc = "forwarding", !.ready = ready,
                             !.candidates = Candidates(first, states),
                             !.cur = 1]]
  /\ UNCHANGED <<shardVars, searchVars, membership, readyResp, clock,
                 shardCall, hb>>

\* the router after the try statement of request rq (of id r) took its
\* except branch with exception e: the coordinator is marked, and the loop
\* goes on to the next candidate or ends with the 503 of the router
AfterExcept(r, rq, e) ==
  LET base == rq.candidates[rq.cur]
  IN  IF rq.cur < Len(rq.candidates)
      THEN [router EXCEPT
              !.coord_state =
                 [[@ EXCEPT ![base] = ForwardEnds(@, "raised")]
                    EXCEPT ![rq.candidates[rq.cur + 1]] = ForwardBegins(@)],
              !.reqs[r] = [rq EXCEPT !.cur = @ + 1, !.last_err = e]]
      ELSE [router EXCEPT
              !.coord_state[base] = ForwardEnds(@, "raised"),
              !.reqs[r] = [rq EXCEPT !.pc = "done", !.status = 503,
                                     !.last_err = e]]

\* the forward in flight returns the response rsp: it is passed on with its
\* status and its body as JSON; resp.json() raises on a body that is not JSON
ForwardReturns(r, rsp) ==
  /\ router.reqs[r].pc = "forwarding"
  /\ LET rq == [router.reqs[r] EXCEPT !.resp = Some(rsp.status_code)]
         base == rq.candidates[rq.cur]
     IN  IF rsp.is_json
         THEN router' = [router EXCEPT
                           !.coord_state[base] = ForwardEnds(@, "returned"),
                           !.reqs[r] = [rq EXCEPT !.pc = "done",
                                                  !.status = rsp.status_code,
                                                  !.routed_to = base]]
         ELSE router' = AfterExcept(r, rq, "JSONDecodeError")
  /\ UNCHANGED <<shardVars, searchVars, membership, readyResp, clock,
                 shardCall, hb>>

\* the forward in flight raises
ForwardRaises(r, e) ==
  /\ router.reqs[r].pc = "forwarding"
  /\ router' = AfterExcept(r, router.reqs[r], e)
  /\ UNCHANGED <<shardVars, searchVars, membership, readyResp, clock,
                 shardCall, hb>>

\* the request is cancelled while its forward is in flight: CancelledError
\* is raised at the await and leaves the handler through finally
ForwardCancelled(r) ==
  /\ router.reqs[r].pc = "forwarding"
  /\ LET base == router.reqs[r].candidates[router.reqs[r].cur]
     IN  router' = [router EXCEPT
                      !.coord_state[base] = ForwardEnds(@, "cancelled"),
                      !.reqs[r].pc = "cancelled"]
  /\ UNCHANGED <<shardVars, searchVars, membership, readyResp, clock,
                 shardCall, hb>>

NextRouter ==
  \/ \E results \in [Coordinators -> ProbeResults] : RouterHealthRound(results)
  \/ \E r \in RouterRequests : RouterSearchStart(r)
  \/ \E r \in RouterRequests : \E rsp \in CoordResponses :
       ForwardReturns(r, rsp)
  \/ \E r \in RouterRequests : \E e \in ForwardExceptions :
       ForwardRaises(r, e)
  \/ \E r \in RouterRequests : ForwardCancelled(r)

SpecRouter == InitRouter /\ [][NextRouter]_vars

(***************************************************************************)
(* Properties of the coordinator's search (Spec)                           *)
(***************************************************************************)
Responded == pc = "responded"

DocIds(results) == [i \in DOMAIN results |-> results[i].doc_id]

\* the attempt record of a replica that answered HTTP 200
Answered200(attempt) ==
  "status_code" \in DOMAIN attempt /\ attempt.status_code = 200

\* the shard groups that got a 200 from some replica
SucceededGroups ==
  {g \in Groups :
     \E i \in DOMAIN tasks[g].attempts : Answered200(tasks[g].attempts[i])}

\* every matching document of the shard that answered for group g, ranked
ShardMatches(g) ==
  EngineSearch(svc[tasks[g].chosen_replica].indexer, req.q, TRUE)

\* the list of all matching documents of all shards
AllMatches ==
  Concat([g \in Groups |->
    [i \in DOMAIN ShardMatches(g) |->
       [score |-> ShardMatches(g)[i].score,
        doc_id |-> ShardMatches(g)[i].doc_id]]])

\* the global page: positions [(page-1)*page_size, page*page_size) of the
\* list of all matching documents sorted by (-score, doc_id)
GlobalPage ==
  Slice(SortRanked(AllMatches), (req.page - 1) * req.page_size,
        req.page * req.page_size)

\* C1: when every shard group succeeds, the results of the coordinator are
\* the global page, for every page >= 1 and page_size >= 1
C1_GlobalPage ==
  Responded /\ SucceededGroups = Groups
    => DocIds(resp.data.results) = DocIds(GlobalPage)

\* C2: total_hits in data and in meta is the sum of total_hits of the shard
\* groups that succeeded, the others counting 0; it is the number of matching
\* documents of those shards, whatever page and page_size are
C2_TotalHits ==
  Responded =>
    /\ resp.data.total_hits =
         SumSeq([g \in Groups |->
                   IF g \in SucceededGroups
                   THEN tasks[g].response_json.total_hits ELSE 0])
    /\ resp.meta.total_hits = resp.data.total_hits
    /\ resp.data.total_hits =
         SumSeq([g \in Groups |->
                   IF g \in SucceededGroups THEN Len(ShardMatches(g)) ELSE 0])

C2_Witness ==
  /\ Responded
  /\ SucceededGroups # {} /\ SucceededGroups # Groups
  /\ req.page = 2
  /\ resp.data.total_hits > Len(resp.data.results)
  /\ resp.data.total_hits > 0

AllReplicasFailed ==
  \A g \in Groups :
    /\ Len(tasks[g].attempts) = Len(ShardGroups[g].replicas)
    /\ \A i \in DOMAIN tasks[g].attempts : ~Answered200(tasks[g].attempts[i])

\* C4: when every replica of every shard group fails, the search still
\* answers 200 with status "partial", no results, total_hits 0, error null,
\* and every shard group in meta.shards not ok with chosen_replica null
C4_AllFailed ==
  Responded /\ AllReplicasFailed =>
    /\ resp.http_status = 200
    /\ resp.status = "partial"
    /\ resp.data.results = <<>>
    /\ resp.data.total_hits = 0 /\ resp.meta.total_hits = 0
    /\ resp.error = None
    /\ DOMAIN resp.meta.shards = Groups
    /\ \A g \in Groups :
         /\ ~resp.meta.shards[g].ok
         /\ resp.meta.shards[g].chosen_replica = None

C4_Witness ==
  /\ Responded /\ AllReplicasFailed
  /\ req.q = QTom
  /\ \A g \in Groups : \A i \in DOMAIN tasks[g].attempts :
       "error" \in DOMAIN tasks[g].attempts[i]

\* the shard ids among 0..n-1 whose load_data retains the document
ShardsRetaining(doc, n) ==
  {sid \in 0..(n - 1) : doc \in Range(RetainedMovies(corpus, sid, n))}

\* the shard ids of the topology whose started nodes index the document
ShardsIndexing(doc) ==
  {ShardIdOf(rep) : rep \in {r \in Replicas :
                               doc.id \in DOMAIN svc[r].indexer.documents}}

\* C5: with shards 0..n-1 started with NUM_SHARDS = n over one corpus, every
\* document is indexed by the shard doc.id mod n and by no other (n = 1: the
\* one shard keeps all), and no doc_id occurs twice in a coordinator response
C5_OneShardPerDocument ==
  /\ \A n \in 1..MaxShards : \A doc \in Range(corpus) :
       ShardsRetaining(doc, n) = {doc.id % n}
  /\ RetainedMovies(corpus, 0, 1) = corpus
  /\ \A doc \in Range(corpus) : ShardsIndexing(doc) = {doc.id % NumShards}
  /\ Responded =>
       \A i, j \in DOMAIN resp.data.results :
         resp.data.results[i].doc_id = resp.data.results[j].doc_id => i = j

C5_Witness ==
  /\ Responded
  /\ SucceededGroups = Groups
  /\ Len(resp.data.results) >= 2
  /\ \E g \in Groups : Len(tasks[g].attempts) > 1

\* some shard rejected the request with HTTP 400
ShardsRejected ==
  \E g \in Groups : \E i \in DOMAIN tasks[g].attempts :
    /\ "status_code" \in DOMAIN tasks[g].attempts[i]
    /\ tasks[g].attempts[i].status_code = 400

\* C6: a query without a non-whitespace character that the shards rejected
\* reaches the caller of the coordinator as an error with code INVALID_QUERY
C6_InvalidQuerySurfaced ==
  Responded /\ StripIsEmpty(req.q) /\ ShardsRejected =>
    resp.status = "error" /\ resp.error = "INVALID_QUERY"

\* C8: the same search with the other value of debug, over the same shard
\* responses, has the same doc_ids in the same order; without debug no item
\* has a score or explanations, with debug every item has its score
C8_DebugOnlyAddsScores ==
  Responded =>
    /\ DocIds(SearchResponse([req EXCEPT !.debug = ~@], tasks).data.results)
         = DocIds(resp.data.results)
    /\ ~req.debug =>
         \A i \in DOMAIN resp.data.results :
           /\ resp.data.results[i].score = NoValue
           /\ resp.data.results[i].explanations = NoValue
    /\ req.debug =>
         \A i \in DOMAIN resp.data.results :
           resp.data.results[i].score # NoValue

C8_Witness ==
  /\ Responded
  /\ ~req.debug
  /\ Len(resp.data.results) >= 2

\* the outcome of the query of one shard group, so far
GroupOutcome(g) ==
  LET t == tasks[g]
      ordered == OrderedReplicas(ShardGroups[g].replicas, membership)
      n == Len(t.attempts)
  IN  /\ n <= Len(ordered)
      /\ \A i \in 1..n : t.attempts[i].replica = ordered[i]
      /\ \A i \in 1..(n - 1) : ~Answered200(t.attempts[i])
      /\ ~t.done => /\ n < Len(ordered)
                    /\ t.idx = n + 1
                    /\ \A i \in 1..n : ~Answered200(t.attempts[i])
      /\ t.done =>
           /\ t.posts = 0
           /\ t.ok => /\ n >= 1
                      /\ Answered200(t.attempts[n])
                      /\ t.chosen_replica = ordered[n]
           /\ ~t.ok <=> /\ n = Len(ordered)
                        /\ \A i \in 1..n : ~Answered200(t.attempts[i])
           /\ ~t.ok => t.chosen_replica = None

HasReadyReplica(g) ==
  \E rep \in Range(ShardGroups[g].replicas) :
    membership[rep].ready /\ membership[rep].status # "down"

\* C9: GET /ready answers ready exactly when every shard group has a replica
\* with ready = true and a status other than DOWN; before the first
\* heartbeat tick it answers not ready
C9_Readiness ==
  readyResp # 0 =>
    /\ readyResp = 200 <=> \A g \in Groups : HasReadyReplica(g)
    /\ readyResp # 200 => readyResp = 503
    /\ clock = 0 => readyResp = 503

C9_Witness ==
  /\ readyResp = 200
  /\ \E rep \in Replicas : membership[rep].status = "down"

(***************************************************************************)
(* Properties of the shard node's search (SpecShard)                       *)
(***************************************************************************)
\* what the last call of SearchService.search had to answer
CallRule ==
  shardCall.called =>
    LET empty == svc[shardCall.rep].indexer.total_documents = 0
        blank == \A i \in DOMAIN shardCall.query :
                   shardCall.query[i] \in Whitespace
        invalid == blank \/ shardCall.page < 1
    IN  /\ empty => shardCall.out.error = "INDEX_NOT_READY"
        /\ ~empty /\ invalid => shardCall.out.error = "INVALID_QUERY"
        /\ ~empty /\ ~invalid => shardCall.out.error = None
        /\ shardCall.out.error # None => "response" \notin DOMAIN shardCall.out

\* C7: a search on an index of zero documents fails with INDEX_NOT_READY,
\* also when the query is blank or page < 1; otherwise a blank query or
\* page < 1 fails with INVALID_QUERY; a failing search has no results and
\* every search leaves the index as it was
C7_SearchErrors ==
  [][shardCall' # shardCall => svc' = svc /\ CallRule']_vars

C7_Witness ==
  /\ shardCall.called
  /\ corpus # <<>>
  /\ svc[shardCall.rep].indexer.total_documents = 0
  /\ shardCall.query = QBlank /\ shardCall.page < 1
  /\ shardCall.out.error = "INDEX_NOT_READY"

(***************************************************************************)
(* Properties of the attempt order and the retry (Spec)                    *)
(***************************************************************************)
\* UP before SUSPECT before DOWN
StatusRank == [up |-> 0, suspect |-> 1, down |-> 2]

\* the position of a replica in the configured list of its shard group
ConfigPos(g, rep) ==
  CHOOSE i \in DOMAIN ShardGroups[g].replicas : ShardGroups[g].replicas[i] = rep

\* replica a is attempted before replica b of group g
AttemptedBefore(g, a, b) ==
  \/ StatusRank[membership[a].status] < StatusRank[membership[b].status]
  \/ /\ membership[a].status = membership[b].status
     /\ ConfigPos(g, a) < ConfigPos(g, b)

\* C11: the replicas of a shard group are attempted UP before SUSPECT before
\* DOWN, replicas of equal status in their configured order; a replica that
\* is down comes after one of the same group that is up or suspect
C11_AttemptOrder ==
  pc \in {"gather", "responded"} =>
    \A g \in Groups :
      /\ Len(tasks[g].ordered) = Len(ShardGroups[g].replicas)
      /\ Range(tasks[g].ordered) = Range(ShardGroups[g].replicas)
      /\ \A i, j \in DOMAIN tasks[g].ordered :
           i < j => AttemptedBefore(g, tasks[g].ordered[i], tasks[g].ordered[j])
      /\ \A i \in DOMAIN tasks[g].attempts :
           tasks[g].attempts[i].replica = tasks[g].ordered[i]

C11_Witness ==
  /\ pc = "gather"
  /\ membership[ShardGroups[1].replicas[1]].status = "down"
  /\ membership[ShardGroups[1].replicas[2]].status = "suspect"
  /\ Len(tasks[1].attempts) = 2
  /\ tasks[1].attempts[1].replica = ShardGroups[1].replicas[2]
  /\ tasks[1].attempts[2].replica = ShardGroups[1].replicas[1]

\* names of exceptions a POST can raise: the four that are retried, and others
TransportErrors ==
  {"ConnectTimeout", "ReadTimeout", "ConnectError", "RemoteProtocolError",
   "WriteError", "ReadError", "WriteTimeout", "PoolTimeout"}

\* the attempt on the current replica of task t ended in task u without success
AttemptEnded(t, u) ==
  /\ u.posts # 2
  /\ Len(u.attempts) = Len(t.attempts) + 1
  /\ u.attempts[Len(u.attempts)].replica = t.ordered[t.idx]
  /\ ~u.attempts[Len(u.attempts)].ok
  /\ IF t.idx < Len(t.ordered)
     THEN u.idx = t.idx + 1 /\ u.posts = 1 /\ ~u.done
     ELSE u.done /\ ~u.ok

\* C12: a replica receives at most two POSTs for a search; the second POST is
\* sent only after the first raised a connect timeout, read timeout, connect
\* error or protocol error; a response of any HTTP status is never retried,
\* and any exception of the second POST ends the attempt on the replica
C12_RetryOnce ==
  pc = "gather" =>
    \A g \in Groups :
      /\ tasks[g].posts \in IF tasks[g].done THEN {0} ELSE {1, 2}
      /\ Cardinality(Range(tasks[g].ordered)) = Len(tasks[g].ordered)
      /\ ~tasks[g].done =>
           /\ \A e \in TransportErrors :
                LET u == AfterException(tasks[g], e, membership)
                IN  IF /\ tasks[g].posts = 1
                       /\ e \in {"ConnectTimeout", "ReadTimeout",
                                 "ConnectError", "RemoteProtocolError"}
                    THEN u = [tasks[g] EXCEPT !.posts = 2]
                    ELSE AttemptEnded(tasks[g], u) /\
                         u.attempts[Len(u.attempts)].error = e
           /\ \A s \in {200, 400, 404, 500, 503} :
                LET u == AfterResponse(tasks[g],
                                       [status_code |-> s, json |-> NoValue],
                                       membership)
                IN  /\ u.posts # 2
                    /\ Len(u.attempts) = Len(tasks[g].attempts) + 1
                    /\ u.attempts[Len(u.attempts)].status_code = s
                    /\ IF s = 200 THEN u.done /\ u.ok
                       ELSE AttemptEnded(tasks[g], u)

C12_Witness ==
  /\ pc = "gather"
  /\ \E g \in Groups :
       /\ tasks[g].posts = 2
       /\ tasks[g].idx = 2
       /\ "error" \in DOMAIN tasks[g].attempts[1]
       /\ tasks[g].attempts[1].error = "WriteError"

(***************************************************************************)
(* Properties of the membership table (SpecMembership)                     *)
(***************************************************************************)
\* C13: between two steps of the event loop every replica that has been
\* probed has the status its consecutive_failures give: down from 5 failures,
\* suspect from 2 to 4, up below 2
C13_StatusFromFailures ==
  clock >= 1 =>
    \A rep \in Replicas :
      membership[rep].status =
        IF membership[rep].consecutive_failures >= 5 THEN "down"
        ELSE IF membership[rep].consecutive_failures >= 2 THEN "suspect"
        ELSE "up"

C13_Witness ==
  /\ readyResp # 0
  /\ \E a, b, c \in Replicas :
       /\ membership[a].status = "down" /\ membership[a].consecutive_failures = 5
       /\ membership[b].status = "suspect"
       /\ membership[c].status = "up" /\ membership[c].consecutive_failures = 1

\* the record of replica rep after the next heartbeat round applied res to it
Probed(rep, res) == ApplyProbe(membership[rep], res, clock + 1)

\* the part of the probe update common to every failed probe, and the update
\* of a probe answered with 200
ProbeCounts(rep, res) ==
  IF res.kind = "ok"
  THEN /\ Probed(rep, res).consecutive_failures = 0
       /\ Probed(rep, res).ready
       /\ Probed(rep, res).status = "up"
       /\ Probed(rep, res).last_seen_ts = Some(clock + 1)
       /\ Probed(rep, res).last_rtt_ms = Some(res.rtt_ms)
  ELSE /\ Probed(rep, res).consecutive_failures =
            membership[rep].consecutive_failures + 1
       /\ ~Probed(rep, res).ready
       /\ Probed(rep, res).last_seen_ts = membership[rep].last_seen_ts
       /\ Probed(rep, res).status =
            IF Probed(rep, res).consecutive_failures >= 5 THEN "down"
            ELSE IF Probed(rep, res).consecutive_failures >= 2 THEN "suspect"
            ELSE "up"

\* C14 as stated: a 200 answer sets consecutive_failures to 0 and ready to
\* true, and the status to up from any status; a transport error or a non-200
\* answer adds 1 to consecutive_failures, sets ready to false and keeps
\* last_seen_ts and last_rtt_ms
C14_ProbeUpdate ==
  \A rep \in Replicas, res \in ProbeResults :
    /\ ProbeCounts(rep, res)
    /\ res.kind # "ok" =>
         Probed(rep, res).last_rtt_ms = membership[rep].last_rtt_ms

\* C14 amended: as above, but only a transport error keeps last_rtt_ms; a
\* non-200 answer sets last_rtt_ms to the round-trip time of that probe
C14_ProbeUpdateRtt ==
  \A rep \in Replicas, res \in ProbeResults :
    /\ ProbeCounts(rep, res)
    /\ res.kind = "exception" =>
         Probed(rep, res).last_rtt_ms = membership[rep].last_rtt_ms
    /\ res.kind = "not_ready" =>
         Probed(rep, res).last_rtt_ms = Some(res.rtt_ms)

C14_Witness ==
  \E a, b \in Replicas :
    /\ membership[a].status = "down"
    /\ membership[a].last_seen_ts = NoValue
    /\ membership[a].last_rtt_ms # NoValue
    /\ membership[b].status = "up"
    /\ membership[b].ready
    /\ membership[b].last_seen_ts = Some(clock)
    /\ clock >= 2

\* C15: every replica of the topology has a membership entry from start-up
\* on, and until the first probe result is applied the entry is suspect with
\* 0 consecutive failures and not ready
C15_InitialEntries ==
  /\ DOMAIN membership =
       UNION {Range(ShardGroups[g].replicas) : g \in DOMAIN ShardGroups}
  /\ clock = 0 =>
       \A rep \in DOMAIN membership :
         /\ membership[rep].status = "suspect"
         /\ membership[rep].consecutive_failures = 0
         /\ ~membership[rep].ready

C15_Witness == clock = 0 /\ readyResp = 503

(***************************************************************************)
(* Properties of the membership table during a search (Spec)               *)
(***************************************************************************)
\* C16: only a heartbeat round writes the membership table: every step of a
\* search, whatever the replicas answer, and every readiness request leaves
\* the record of every replica as it was
C16_OnlyHeartbeatWrites == [][clock' = clock => membership' = membership]_vars

C16_Witness ==
  /\ Responded
  /\ \E rep \in Replicas : membership[rep].status = "up"
  /\ \E g \in Groups :
       /\ Len(tasks[g].attempts) = 2
       /\ "error" \in DOMAIN tasks[g].attempts[1]
       /\ Answered200(tasks[g].attempts[2])

\* the step ends the attempt on the current replica of group g after the
\* first POST raised a retried exception and the second POST raised too
PersistentFailure(g) ==
  /\ pc = "gather" /\ pc' = "gather"
  /\ tasks[g].posts = 2
  /\ Len(tasks'[g].attempts) = Len(tasks[g].attempts) + 1
  /\ "error" \in DOMAIN tasks'[g].attempts[Len(tasks'[g].attempts)]

\* the step makes the membership record of replica rep worse
Degraded(rep) ==
  \/ membership'[rep].consecutive_failures > membership[rep].consecutive_failures
  \/ StatusRank[membership'[rep].status] > StatusRank[membership[rep].status]
  \/ membership[rep].ready /\ ~membership'[rep].ready

\* the step goes on to the next replica of group g, or ends the group
\* without success after the last one
NextReplicaTried(g) ==
  IF tasks[g].idx < Len(tasks[g].ordered)
  THEN /\ tasks'[g].idx = tasks[g].idx + 1
       /\ tasks'[g].posts = 1
       /\ ~tasks'[g].done
  ELSE /\ tasks'[g].done
       /\ ~tasks'[g].ok
       /\ tasks'[g].chosen_replica = None

\* C17 as stated: when the first POST to a replica and its retry both fail
\* with a transport error, the membership record of the replica is degraded
\* by that request and the next replica of the group is tried
C17_MarkedDownTending ==
  [][\A g \in Groups :
       PersistentFailure(g) =>
         /\ Degraded(tasks[g].ordered[tasks[g].idx])
         /\ NextReplicaTried(g)]_vars

\* C17 amended: such a failure leaves the membership table unchanged; it is
\* recorded in the attempts of the request, with the replica, ok false, the
\* name of the exception and the status the replica has in the table, and
\* the next replica is tried
C17_RecordedInAttempts ==
  [][\A g \in Groups :
       PersistentFailure(g) =>
         /\ membership' = membership
         /\ LET attempt == tasks'[g].attempts[Len(tasks'[g].attempts)]
                rep == tasks[g].ordered[tasks[g].idx]
            IN  /\ attempt.replica = rep
                /\ ~attempt.ok
                /\ attempt.error \in PostExceptions
                /\ attempt.replica_status = membership[rep].status
         /\ NextReplicaTried(g)]_vars

C17_Witness ==
  /\ pc = "gather"
  /\ \E g \in Groups :
       /\ tasks[g].idx = 2 /\ tasks[g].posts = 1
       /\ "error" \in DOMAIN tasks[g].attempts[1]
       /\ tasks[g].attempts[1].error = "ConnectError"

(***************************************************************************)
(* Properties of the merge (Spec)                                          *)
(***************************************************************************)
\* the orders in which the results of the shard groups can reach the merge
GroupOrders == {f \in [Groups -> Groups] : Range(f) = Groups}

\* the (score, doc_id, item) triples of the shard responses that ranked
\* before triple m
RankedAhead(m) ==
  {i \in DOMAIN MergedResults(ShardResults(tasks)) :
     RanksBefore(MergedResults(ShardResults(tasks))[i], m)}

\* C18: the page of a coordinator search is fixed by the shard responses:
\* taken in any order of the shard groups they give the same items in the
\* same order, and position i of the page holds the item that has
\* (page-1)*page_size + i - 1 items before it by descending score, ascending
\* doc_id among equal scores
C18_MergeOrder ==
  Responded /\ resp.http_status = 200 =>
    /\ \A f \in GroupOrders :
         SearchResponse(req, [g \in Groups |-> tasks[f[g]]]).data.results
           = resp.data.results
    /\ \A i \in DOMAIN resp.data.results :
         \E k \in DOMAIN MergedResults(ShardResults(tasks)) :
           /\ MergedResults(ShardResults(tasks))[k].doc_id
                = resp.data.results[i].doc_id
           /\ Cardinality(RankedAhead(MergedResults(ShardResults(tasks))[k]))
                = (req.page - 1) * req.page_size + i - 1
    /\ Len(resp.data.results) =
         Min(req.page_size,
             IF Len(MergedResults(ShardResults(tasks)))
                  > (req.page - 1) * req.page_size
             THEN Len(MergedResults(ShardResults(tasks)))
                    - (req.page - 1) * req.page_size
             ELSE 0)

C18_Witness ==
  /\ Responded /\ resp.http_status = 200
  /\ SucceededGroups = Groups
  /\ Len(resp.data.results) = 2
  /\ tasks[1].response_json.results # <<>>
  /\ \E i \in DOMAIN tasks[2].response_json.results :
       tasks[2].response_json.results[i].doc_id = resp.data.results[1].doc_id

(***************************************************************************)
(* Properties of the shard node's pagination (SpecShard)                   *)
(***************************************************************************)
\* the number of pages of size page_size that hold the n ranked results
NumPages(n, page_size) == (n + page_size - 1) \div page_size

\* page p as the last call would have got it with its query, page_size and
\* debug on the same node
PageOfCall(p) ==
  ServiceSearch(svc[shardCall.rep], shardCall.query, p, shardCall.page_size,
                shardCall.debug)

\* out is page p of the ranked list full with total_hits Len(full): it holds
\* the elements at positions [(p-1)*page_size, p*page_size) of the list
IsPageOf(out, p, full) ==
  /\ out.error = None
  /\ out.response.total_hits = Len(full)
  /\ out.response.page = p
  /\ Len(out.response.results) =
       Cardinality({i \in 1..shardCall.page_size :
                      (p - 1) * shardCall.page_size + i <= Len(full)})
  /\ \A i \in DOMAIN out.response.results :
       out.response.results[i] =
         ToSearchResult(full[(p - 1) * shardCall.page_size + i],
                        shardCall.debug)

\* C19: for the query and page_size of a search that succeeded, every page
\* p >= 1 has total_hits equal to the length of the full ranked list and holds
\* its elements at positions [(p-1)*page_size, p*page_size); the pages in
\* order concatenate to the full list, pages past the end are empty, and no
\* document is on two pages
C19_PagesPartition ==
  shardCall.called /\ shardCall.out.error = None =>
    The({ /\ IsPageOf(shardCall.out, shardCall.page, full)
          /\ \A p \in 1..(NumPages(Len(full), shardCall.page_size) + 1) :
               IsPageOf(PageOfCall(p), p, full)
          /\ PageOfCall(NumPages(Len(full), shardCall.page_size) + 1)
               .response.results = <<>>
          /\ Concat([p \in 1..NumPages(Len(full), shardCall.page_size) |->
                       DocIds(PageOfCall(p).response.results)])
               = DocIds(full)
          /\ \A i, j \in DOMAIN full :
               i # j => full[i].doc_id # full[j].doc_id :
          full \in {EngineSearch(svc[shardCall.rep].indexer, shardCall.query,
                                 shardCall.debug)} })

C19_Witness ==
  /\ shardCall.called /\ shardCall.out.error = None
  /\ shardCall.page = 2 /\ shardCall.page_size = 1
  /\ shardCall.out.response.total_hits = 2
  /\ Len(shardCall.out.response.results) = 1

(***************************************************************************)
(* Properties of QueryEngine.search (SpecEngine)                           *)
(***************************************************************************)
\* the expanded tokens that are tokens of the index: each matches itself
ExactMatched(ix, expanded) == {t \in expanded : t \in DOMAIN ix.index}

\* the base tokens that search looks up by similarity if its budget allows:
\* not in the index, not a number, long enough, with candidates
FuzzyLookedUp(ix, base_tokens, expanded) ==
  {t \in base_tokens \cap expanded :
     /\ t \notin DOMAIN ix.index
     /\ ~IsDigit(t)
     /\ Len(t) >= FUZZY_MIN_TOKEN_LEN
     /\ fuzzy_candidates(ix, t, 300) # <<>>}

\* the index tokens that the tokens F matched by similarity
FuzzyMatched(ix, F) ==
  UNION {{m[1] : m \in Range(get_closest_token(t, fuzzy_candidates(ix, t, 300)))}
           : t \in F}

\* the documents with a posting for one of the tokens
DocsWithPosting(ix, matched) == UNION {DOMAIN lookup(ix, m) : m \in matched}

\* hits is the answer to a query whose tokens are base_tokens: for a set F of
\* looked-up tokens as large as the budget allows, it holds once each the
\* documents with a posting for a matched token and no other document
AnswersTokens(ix, hits, base_tokens, expanded) ==
  \E F \in SUBSET FuzzyLookedUp(ix, base_tokens, expanded) :
    /\ Cardinality(F) =
         Min(FUZZY_MAX_TOKENS_PER_QUERY,
             Cardinality(FuzzyLookedUp(ix, base_tokens, expanded)))
    /\ Range(DocIds(hits)) =
         DocsWithPosting(ix, ExactMatched(ix, expanded) \cup FuzzyMatched(ix, F))
    /\ Len(hits) = Cardinality(Range(DocIds(hits)))
    /\ ExactMatched(ix, expanded) \cup FuzzyMatched(ix, F) = {} => hits = <<>>

\* scored is in the order of descending score, ascending doc_id among equals
RankOrdered(scored) ==
  \A i, j \in DOMAIN scored :
    i < j => \/ scored[i].score > scored[j].score
             \/ /\ scored[i].score = scored[j].score
                /\ scored[i].doc_id < scored[j].doc_id

\* C20: QueryEngine.search returns, once each, the documents that have a
\* posting for at least one matched token, also those whose score is zero or
\* negative, and no other document; it returns the empty list when the query
\* has no tokens or no token matches; the list is in the order of descending
\* score, ascending doc_id among equal scores
C20_OrSemantics ==
  shardCall.called =>
    The({ /\ tokens = <<>> => shardCall.hits = <<>>
          /\ tokens # <<>> =>
               AnswersTokens(svc[shardCall.rep].indexer, shardCall.hits,
                             Range(tokens), synonyms(Range(tokens)))
          /\ The({ /\ DocIds(scored) = DocIds(shardCall.hits)
                   /\ RankOrdered(scored) :
                   scored \in {EngineSearch(svc[shardCall.rep].indexer,
                                            shardCall.query, TRUE)} }) :
          tokens \in {tokenize(shardCall.query)} })

C20_Witness ==
  /\ shardCall.called /\ shardCall.debug
  /\ Len(shardCall.hits) >= 2
  /\ shardCall.hits[1].score < 0
  /\ shardCall.hits[1].score > shardCall.hits[2].score
  /\ shardCall.hits[1].doc_id > shardCall.hits[2].doc_id

(***************************************************************************)
(* Properties of the shard's internal search endpoint (Spec)               *)
(***************************************************************************)
\* C21: every item of every answer of POST /internal/search carries its
\* score, whatever the debug of the request: the answer is the same for both
\* values of debug, and the coordinator never merges an item without a score
C21_ItemsCarryScore ==
  pc \in {"gather", "responded"} =>
    /\ \A g \in Groups :
         tasks[g].ok =>
           /\ \A i \in DOMAIN tasks[g].response_json.results :
                tasks[g].response_json.results[i].score # NoValue
           /\ \A b \in BOOLEAN :
                internal_search(svc[tasks[g].chosen_replica],
                                [Payload(req) EXCEPT !.debug = b]).json
                  = tasks[g].response_json
    /\ Responded => resp.http_status = 200

C21_Witness ==
  /\ Responded /\ ~req.debug
  /\ SucceededGroups = Groups
  /\ Len(resp.data.results) >= 2
  /\ \A g \in Groups : tasks[g].response_json.results # <<>>

(***************************************************************************)
(* Properties of the index (SpecIndexer)                                   *)
(***************************************************************************)
\* the indexer that the builds were called on
BuiltIndexer == svc[IndexerHost].indexer

\* every record passed to build so far, in order
AddedRecords == Concat(shardCall.builds)

\* the number of occurrences of token t in the sequence of tokens
Occurrences(t, tokens) == Cardinality({i \in DOMAIN tokens : tokens[i] = t})

\* the tokens of every indexed field of every record added: toks[i][k] are
\* those of field IndexedFields[k] of AddedRecords[i]
AddedFieldTokens ==
  [i \in DOMAIN AddedRecords |->
     [k \in DOMAIN IndexedFields |->
        tokenize(FieldText(AddedRecords[i], IndexedFields[k]))]]

\* the number of occurrences of token t in the tokens of field number k of
\* the records added under document id d
AddedInField(toks, t, d, k) ==
  SumSeq([i \in DOMAIN AddedRecords |->
            IF AddedRecords[i].id = d THEN Occurrences(t, toks[i][k]) ELSE 0])

\* the same over all indexed fields
AddedInDoc(toks, t, d) ==
  SumSeq([k \in DOMAIN IndexedFields |-> AddedInField(toks, t, d, k)])

\* the postings of token t count the tokens toks
PostingsCount(toks, t) ==
  /\ DOMAIN BuiltIndexer.index[t] =
       {AddedRecords[i].id : i \in {j \in DOMAIN AddedRecords :
                                      AddedInDoc(toks, t, AddedRecords[j].id) > 0}}
  /\ \A d \in DOMAIN BuiltIndexer.index[t] :
       /\ BuiltIndexer.index[t][d].tf >= 1
       /\ BuiltIndexer.index[t][d].fields # {}
       /\ BuiltIndexer.index[t][d].fields =
            DOMAIN BuiltIndexer.index[t][d].tf_by_field
       /\ \A k \in DOMAIN IndexedFields :
            IF IndexedFields[k] \in BuiltIndexer.index[t][d].fields
            THEN /\ BuiltIndexer.index[t][d].tf_by_field[IndexedFields[k]] >= 1
                 /\ BuiltIndexer.index[t][d].tf_by_field[IndexedFields[k]]
                      = AddedInField(toks, t, d, k)
            ELSE AddedInField(toks, t, d, k) = 0
       /\ BuiltIndexer.index[t][d].fields \subseteq Range(IndexedFields)
       /\ BuiltIndexer.index[t][d].tf = AddedInDoc(toks, t, d)

DocFreqOf(t) ==
  IF t \in DOMAIN BuiltIndexer.doc_freq THEN BuiltIndexer.doc_freq[t] ELSE 0

\* C23: after any sequence of builds, also of batches in which two records
\* share an id, doc_freq(t) is the number of documents d with a posting
\* (t, d), and 0 <= doc_freq(t) <= total_documents
C23_DocFreq ==
  /\ DOMAIN BuiltIndexer.doc_freq = DOMAIN BuiltIndexer.index
  /\ \A t \in DOMAIN BuiltIndexer.index :
       /\ DocFreqOf(t) = Cardinality(DOMAIN BuiltIndexer.index[t])
       /\ 0 <= DocFreqOf(t)
       /\ DocFreqOf(t) <= BuiltIndexer.total_documents

\* C24: after any build, total_documents is the number of distinct document
\* ids added to the index, which is the number of documents retained
C24_TotalDocuments ==
  /\ BuiltIndexer.total_documents =
       Cardinality({AddedRecords[i].id : i \in DOMAIN AddedRecords})
  /\ BuiltIndexer.total_documents = Cardinality(DOMAIN BuiltIndexer.documents)

\* the postings, doc_freq, total_documents, retained documents and n-gram
\* index of an indexer
IndexContent(ix) ==
  <<ix.index, ix.doc_freq, ix.total_documents, ix.documents, ix.ngram_index>>

\* C25: build replaces any existing index: after any builds the content of
\* the index is that of a fresh Indexer on which only the last batch was
\* built
C25_BuildReplaces ==
  shardCall.builds # <<>> =>
    IndexContent(BuiltIndexer) =
      IndexContent(build(NewIndexer,
                         shardCall.builds[Len(shardCall.builds)],
                         IndexedFields))

(***************************************************************************)
(* Properties of Indexer.lookup (SpecLookup)                               *)
(***************************************************************************)
\* C26: lookup returns a copy isolated from the index: a lookup answers with
\* the postings of the token and an unknown token with the empty map, and
\* neither a lookup nor any mutation of a returned value changes the index
\* or the result of a later lookup of any token
C26_LookupIsolated ==
  /\ [](shardCall.called /\ ~shardCall.mutated =>
          shardCall.returned =
            IF shardCall.token \in DOMAIN BuiltIndexer.index
            THEN BuiltIndexer.index[shardCall.token] ELSE EmptyMap)
  /\ [][/\ svc'[IndexerHost].indexer = svc[IndexerHost].indexer
        /\ \A token \in LookupTokens :
             lookup(svc'[IndexerHost].indexer, token)
               = lookup(svc[IndexerHost].indexer, token)]_vars

C26_Witness ==
  /\ shardCall.called /\ shardCall.mutated
  /\ shardCall.token \in DOMAIN BuiltIndexer.index
  /\ \E d \in DOMAIN shardCall.returned :
       /\ d \in DOMAIN BuiltIndexer.index[shardCall.token]
       /\ "hacked" \in shardCall.returned[d].fields
       /\ "hacked" \notin BuiltIndexer.index[shardCall.token][d].fields
  /\ 0 \in DOMAIN shardCall.returned

(***************************************************************************)
(* Properties of the tokenizer (SpecTokenizer)                             *)
(***************************************************************************)
\* C27: in every program state, also before tokenize has run,
\* basic_token_filter returns false for a token of length 1, for a stop word
\* and for an all-digit token, and true for an ordinary word
C27_BasicTokenFilter ==
  shardCall.called /\ shardCall.fn = "basic_token_filter" /\ shardCall.arg # <<>> =>
    /\ shardCall.out.raised = None
    /\ shardCall.out.value =
         ~ \/ Len(shardCall.arg) = 1
           \/ shardCall.arg \in STOP_WORDS
           \/ \A i \in DOMAIN shardCall.arg : shardCall.arg[i] \in Digits

\* the value of fuzzy_budget at the end of the loop of the last search
FinalBudget ==
  The({ IF shardCall.query = <<>> \/ tokens = <<>>
        THEN FUZZY_MAX_TOKENS_PER_QUERY
        ELSE ScoreTokens([ scores |-> EmptyMap, explanations |-> EmptyMap,
                           fuzzy_budget |-> FUZZY_MAX_TOKENS_PER_QUERY ],
                         svc[shardCall.rep].indexer,
                         SetToSeq(synonyms(Range(tokens))), Range(tokens),
                         shardCall.debug).fuzzy_budget :
          tokens \in {tokenize(shardCall.query)} })

\* the base tokens of the last search that are absent from the index, not
\* all digits and of length >= 4: those that take the fuzzy branch while the
\* budget is positive
FuzzyEligible ==
  {t \in Range(tokenize(shardCall.query)) :
     /\ t \notin DOMAIN svc[shardCall.rep].indexer.index
     /\ ~IsDigit(t)
     /\ Len(t) >= 4}

\* C28: the fuzzy budget starts at 3 and goes down by one for every token
\* that takes the fuzzy branch, whether or not a candidate or a match is
\* found: at the end of a search it is 3 less the number of such tokens, 0
\* if there are more than 3
C28_BudgetPerFuzzyToken ==
  shardCall.called =>
    FinalBudget = 3 - Min(3, Cardinality(FuzzyEligible))

(***************************************************************************)
(* Properties of QueryEngine.synonyms (SpecEngine)                         *)
(***************************************************************************)
RECURSIVE AddUntilFiveNew(_, _, _, _)
\* expanded after the tokens nts of the lemmas of base token t, taken in
\* order until 5 tokens that were not yet in the set have been added
AddUntilFiveNew(expanded, t, nts, new) ==
  IF nts = <<>> \/ new >= 5 THEN expanded
  ELSE IF Head(nts) = t \/ Head(nts) \in expanded
       THEN AddUntilFiveNew(expanded, t, Tail(nts), new)
       ELSE AddUntilFiveNew(expanded \cup {Head(nts)}, t, Tail(nts), new + 1)

RECURSIVE ExpandUntilFiveNew(_, _)
\* the expansion of the base tokens todo, each all digits or of length <= 3
\* skipped, each other one expanded until 5 new tokens
ExpandUntilFiveNew(expanded, todo) ==
  IF todo = {} THEN expanded
  ELSE LET t == CHOOSE x \in todo : TRUE
           nts == Concat([i \in DOMAIN LemmasOf(t) |->
                            tokenize(Lower(LemmasOf(t)[i]))])
       IN  ExpandUntilFiveNew(
             IF (\A i \in DOMAIN t : t[i] \in Digits) \/ Len(t) <= 3
             THEN expanded
             ELSE AddUntilFiveNew(expanded, t, nts, 0),
             todo \ {t})

\* C29: the expansion keeps every base token, skips base tokens that are all
\* digits or of length <= 3, adds no token equal to the base token it
\* expands, stops for a base token only when 5 tokens not yet in the
\* expanded set have been added for it or its lemmas are exhausted, and has
\* at most 6 times as many tokens as the base set
C29_FiveNewSynonyms ==
  shardCall.called /\ tokenize(shardCall.query) # <<>> =>
    The({ /\ base \subseteq synonyms(base)
          /\ synonyms(base) = ExpandUntilFiveNew(base, base)
          /\ Cardinality(synonyms(base)) <= 6 * Cardinality(base) :
          base \in {Range(tokenize(shardCall.query))} })

(***************************************************************************)
(* Properties of the fan-out (Spec)                                        *)
(***************************************************************************)
\* the number of requests of shard group g that are outstanding
Outstanding(g) == IF tasks[g].done THEN 0 ELSE 1

\* C30: a search sends the first request of every shard group at once, and
\* the groups proceed independently: a step of one group leaves the others
\* as they are.  Within a group at most one request is outstanding, to the
\* replica at position idx, and the attempts on all replicas before it have
\* ended in failure
C30_FanOut ==
  /\ [](pc = "gather" =>
          \A g \in Groups :
            /\ Outstanding(g) <= 1
            /\ tasks[g].idx \in 1..Len(tasks[g].ordered)
            /\ ~tasks[g].done =>
                 /\ Len(tasks[g].attempts) = tasks[g].idx - 1
                 /\ \A i \in DOMAIN tasks[g].attempts :
                      /\ tasks[g].attempts[i].replica = tasks[g].ordered[i]
                      /\ ~tasks[g].attempts[i].ok)
  /\ [][/\ pc # "gather" /\ pc' = "gather" =>
             \A g \in Groups :
               /\ ~tasks'[g].done
               /\ tasks'[g].idx = 1 /\ tasks'[g].posts = 1
               /\ tasks'[g].attempts = <<>>
        /\ pc = "gather" /\ pc' = "gather" =>
             \A g, h \in Groups :
               g # h /\ tasks'[g] # tasks[g] => tasks'[h] = tasks[h]]_vars

C30_Witness ==
  /\ pc = "gather"
  /\ \A g \in Groups : ~tasks[g].done
  /\ tasks[1].idx = 2 /\ tasks[1].posts = 2
  /\ tasks[2].attempts = <<>> /\ tasks[2].posts = 2

(***************************************************************************)
(* Properties of the heartbeat task and the lifespan (SpecHeartbeat)       *)
(***************************************************************************)
\* the probe of rep completes in this step
CompletesNow(rep) ==
  /\ hb.pc = "gather"
  /\ hb.results[rep] = NoValue
  /\ hb'.pc = "gather"
  /\ hb'.results[rep] # NoValue

\* every probe of the tick is outstanding at once when the task starts to wait
IssuedTogether ==
  hb.pc \in {"start", "sleep"} /\ hb'.pc = "gather" => hb'.results = NoResults

\* C31 as stated: within one tick the probes of all replicas are issued
\* concurrently, and a replica whose probe has completed has its update
\* applied then, in the order of completion, without waiting for the slower
\* probes of other replicas
C31_AppliedAsCompleted ==
  [][/\ IssuedTogether
     /\ \A rep \in Replicas :
          CompletesNow(rep) =>
            membership'[rep] =
              ApplyProbe(membership[rep], hb'.results[rep][1], clock + 1)]_vars

\* C31 amended: within one tick the probes of all replicas are issued
\* concurrently; the table changes only in the step in which the probes of
\* all replicas have completed, and then every replica's entry is updated
\* with its own probe result; a probe that completes while another is
\* outstanding leaves the table as it was
C31_AppliedAfterGather ==
  [][/\ IssuedTogether
     /\ membership' # membership =>
          /\ hb.pc = "gather"
          /\ \A rep \in Replicas : hb.results[rep] # NoValue
          /\ \A rep \in Replicas :
               membership'[rep] =
                 ApplyProbe(membership[rep], hb.results[rep][1], clock + 1)
     /\ \A rep \in Replicas :
          CompletesNow(rep) => membership' = membership]_vars

\* the second replica of the table has answered 200 while the first has not
\* answered; the table is still the initial one
C31_Witness ==
  /\ hb.pc = "gather"
  /\ hb.results["u1"] = NoValue
  /\ hb.results["u2"] = Some([kind |-> "ok", rtt_ms |-> 1])
  /\ membership["u2"] = NewReplicaState
  /\ clock = 0

\* C32: on shutdown the heartbeat task is cancelled and awaited: a shutdown
\* that has begun completes wherever the task is in its loop, the task has
\* ended when it completes, and after that no probe is sent, no probe result
\* is taken and no membership entry changes
C32_ShutdownStops ==
  /\ [](hb.phase = "stopped" => hb.pc = "cancelled" /\ ~hb.must_cancel)
  /\ [][hb.phase = "stopped" => hb' = hb /\ membership' = membership]_vars
  /\ (hb.phase = "stopping" ~> hb.phase = "stopped")

\* shutdown has completed after the task was cancelled while it waited in the
\* second tick for the probe of the last replica
C32_Witness ==
  /\ hb.phase = "stopped"
  /\ hb.pc = "cancelled"
  /\ clock = 1
  /\ hb.results["u1"] # NoValue
  /\ hb.results["u3"] = NoValue

(***************************************************************************)
(* Properties of the document route (SpecDocuments)                        *)
(***************************************************************************)
\* C33: build is single-shot and the index is read-only afterwards: build is
\* invoked at most once on an Indexer, and once it has returned no request
\* handler (the document indexing route among them) changes the postings,
\* doc_freq, total_documents, the retained documents or the n-gram index
C33_BuildSingleShot ==
  /\ [](shardCall.builds <= 1)
  /\ [][shardCall.builds >= 1 =>
          IndexContent(shardCall'.indexer) = IndexContent(shardCall.indexer)]_vars

(***************************************************************************)
(* Further properties of the shard node (SpecShard)                        *)
(***************************************************************************)
\* C34: a shard node that reports ready answers every valid internal search
\* (a query with a non-whitespace character, page >= 1) with a result and
\* never with INDEX_NOT_READY, also when its partition of the corpus is
\* empty
C34_ReadyAnswers ==
  /\ shardCall.called
  /\ is_ready[shardCall.rep]
  /\ ~StripIsEmpty(shardCall.query)
  /\ shardCall.page >= 1
  => /\ shardCall.out.error # "INDEX_NOT_READY"
     /\ shardCall.out.error = None

(***************************************************************************)
(* Further properties of the membership table (SpecMembership)             *)
(***************************************************************************)
\* C35 as stated: a replica whose status is UP answered its most recent
\* probe with 200 (ready = true and consecutive_failures = 0), and a replica
\* with ready = true has consecutive_failures = 0 and status UP
C35_UpMeansReady ==
  \A rep \in Replicas :
    /\ membership[rep].status = "up" =>
         membership[rep].ready /\ membership[rep].consecutive_failures = 0
    /\ membership[rep].ready =>
         /\ membership[rep].consecutive_failures = 0
         /\ membership[rep].status = "up"

\* C35 amended: a replica whose status is UP has fewer than
\* SUSPECT_AFTER_FAILURES consecutive failures: either it answered its most
\* recent probe with 200 (ready = true, no failure counted) or it failed its
\* most recent probe and no other since its last 200 or since the start
\* (ready = false); a replica with ready = true has consecutive_failures = 0
\* and status UP
C35_UpMeansFewFailures ==
  \A rep \in Replicas :
    /\ membership[rep].status = "up" =>
         /\ membership[rep].consecutive_failures < SUSPECT_AFTER_FAILURES
         /\ membership[rep].ready = (membership[rep].consecutive_failures = 0)
    /\ membership[rep].ready =>
         /\ membership[rep].consecutive_failures = 0
         /\ membership[rep].status = "up"

\* one replica is UP after a single failed probe, another is UP and ready
C35_Witness ==
  /\ membership["u1"].status = "up"
  /\ membership["u1"].consecutive_failures = 1
  /\ ~membership["u1"].ready
  /\ membership["u3"].status = "up"
  /\ membership["u3"].ready

(***************************************************************************)
(* Further properties of the coordinator's search (Spec)                   *)
(***************************************************************************)
\* the replicas of group g with an attempt record
Attempted(g) ==
  {tasks[g].attempts[i].replica : i \in DOMAIN tasks[g].attempts}

\* the attempt on replica rep of group g ended without a 200
FailedAttempt(g, rep) ==
  \E i \in DOMAIN tasks[g].attempts :
    tasks[g].attempts[i].replica = rep /\ ~Answered200(tasks[g].attempts[i])

\* replica rep of group g is being attempted
BeingAttempted(g, rep) ==
  /\ ~tasks[g].done
  /\ tasks[g].posts >= 1
  /\ tasks[g].ordered[tasks[g].idx] = rep

\* C36: the membership status orders the attempts and excludes no replica: a
\* replica that is suspect or down is attempted as soon as every replica
\* ordered before it in its group has failed, a group is given up only after
\* every one of its replicas was attempted, and a replica that is down is the
\* chosen one when it answers 200
C36_NeverExcluded ==
  pc \in {"gather", "responded"} =>
    \A g \in Groups :
      /\ \A rep \in Range(ShardGroups[g].replicas) :
           /\ membership[rep].status \in {"suspect", "down"}
           /\ \A b \in Range(ShardGroups[g].replicas) :
                AttemptedBefore(g, b, rep) => FailedAttempt(g, b)
           => rep \in Attempted(g) \/ BeingAttempted(g, rep)
      /\ tasks[g].done /\ ~tasks[g].ok =>
           Attempted(g) = Range(ShardGroups[g].replicas)
      /\ \A i \in DOMAIN tasks[g].attempts :
           Answered200(tasks[g].attempts[i]) =>
             /\ tasks[g].ok
             /\ tasks[g].chosen_replica = tasks[g].attempts[i].replica

\* the first shard group succeeded on a replica that is down, after its
\* other replica, which is up, had failed
C36_Witness ==
  /\ pc = "responded"
  /\ tasks[1].ok
  /\ Len(tasks[1].attempts) = 2
  /\ membership[tasks[1].attempts[1].replica].status = "up"
  /\ membership[tasks[1].chosen_replica].status = "down"

(***************************************************************************)
(* Properties of the heartbeat loop left to run (SpecHeartbeatLoop)        *)
(***************************************************************************)
\* the last probe of rep raised or answered another status than 200
ProbeFailed(rep) ==
  hb.results[rep] # NoValue /\ hb.results[rep][1].kind # "ok"

\* C37: the heartbeat loop never stops because of probe outcomes: every tick
\* probes every replica, those marked down included, a probe that raises or
\* answers another status than 200 is counted as a failure, and the loop goes
\* on; hence, if from some point on at least one replica of every shard group
\* answers every probe with 200, the coordinator is eventually ready and
\* stays ready
C37_LoopGoesOn ==
  /\ [](hb.pc = "sleep")
  /\ [][\A rep \in Replicas :
          /\ hb'.results[rep] # NoValue
          /\ hb'.results[rep][1].kind # "ok" =>
               /\ membership'[rep].consecutive_failures =
                    membership[rep].consecutive_failures + 1
               /\ ~membership'[rep].ready]_vars
  /\ (\A g \in Groups : \E rep \in Range(ShardGroups[g].replicas) :
        <>[](~ProbeFailed(rep)))
       => <>[](ReadyStatus(membership) = 200)

\* the coordinator is ready while a replica that was down failed one more
\* probe
C37_Witness ==
  /\ ReadyStatus(membership) = 200
  /\ membership["u2"].status = "down"
  /\ membership["u2"].consecutive_failures > DOWN_AFTER_FAILURES
  /\ ProbeFailed("u2")

(***************************************************************************)
(* Properties of the iteration order of the tokens (SpecEngineOrder)       *)
(***************************************************************************)
\* the ranked list of a result: the document ids in order, with the scores
\* when the items carry them
RankedScores(hits) ==
  [i \in DOMAIN hits |->
     <<hits[i].doc_id,
       IF "score" \in DOMAIN hits[i] THEN Some(hits[i].score) ELSE NoValue>>]

\* C38: QueryEngine.search is deterministic: two runs with the same query on
\* the same built index return the same ranked list with the same scores,
\* whatever the order in which the set of expanded tokens is iterated, also
\* when more than FUZZY_MAX_TOKENS_PER_QUERY base tokens are eligible for
\* fuzzy matching
C38_Deterministic ==
  [][/\ shardCall.called
     /\ shardCall'.called
     /\ shardCall'.rep = shardCall.rep
     /\ shardCall'.query = shardCall.query
     /\ shardCall'.debug = shardCall.debug
     /\ svc' = svc
     => RankedScores(shardCall'.hits) = RankedScores(shardCall.hits)]_vars

(***************************************************************************)
(* Properties of the router (SpecRouter)                                   *)
(***************************************************************************)
\* the coordinators request r has been forwarded to so far
Contacted(r) ==
  {router.reqs[r].candidates[i] : i \in 1..router.reqs[r].cur}

\* the try statement of request r around the forward to coordinator c takes
\* its except branch in this step
ExceptNow(r, c) ==
  /\ router.reqs[r].pc = "forwarding"
  /\ router.reqs[r].candidates[router.reqs[r].cur] = c
  /\ \/ router'.reqs[r].cur = router.reqs[r].cur + 1
     \/ router'.reqs[r].pc = "done" /\ router'.reqs[r].routed_to = None

\* the forward in flight of request r returns a response in this step
RespondsNow(r) ==
  /\ router.reqs[r].pc = "forwarding"
  /\ router'.reqs[r].resp # router.reqs[r].resp

\* what holds of request r in every state
ForwardRule(r) ==
  LET rq == router.reqs[r]
  IN  /\ Contacted(r) \subseteq Range(rq.ready)
      /\ rq.cur <= 2
      /\ Cardinality(Contacted(r)) = rq.cur
      /\ rq.cur = 2 => rq.last_err \in ForwardExceptions
      /\ rq.pc = "done" /\ rq.ready = <<>> =>
           rq.cur = 0 /\ rq.status = 503 /\ rq.routed_to = None
      /\ rq.pc = "done" /\ rq.routed_to # None =>
           /\ rq.status = rq.resp[1]
           /\ rq.routed_to = rq.candidates[rq.cur]
      /\ rq.pc = "done" /\ rq.routed_to = None => rq.status = 503

\* C39: a search is forwarded only to coordinators that were ready when the
\* request chose its candidates, to at most two distinct ones, to the second
\* only after the forward to the first raised an exception; with no ready
\* coordinator the router answers 503 and contacts none; a response of a
\* coordinator, of any status, is passed on and no other coordinator is
\* tried; a coordinator whose forward raised is marked not ready in that step
\* and becomes ready again only when the health loop applies a probe of it
\* that answered 200
C39_Forwarding ==
  /\ [](\A r \in RouterRequests : ForwardRule(r))
  /\ [][\A r \in RouterRequests :
          /\ router.reqs[r].pc = "idle" /\ router'.reqs[r].pc = "done" =>
               router'.coord_state = router.coord_state
          /\ RespondsNow(r) =>
               /\ router'.reqs[r].pc = "done"
               /\ router'.reqs[r].cur = router.reqs[r].cur
               /\ router'.reqs[r].status = router'.reqs[r].resp[1]
               /\ router'.reqs[r].routed_to =
                    router.reqs[r].candidates[router.reqs[r].cur]
          /\ \A c \in Coordinators :
               ExceptNow(r, c) => ~router'.coord_state[c].ready]_vars
  /\ [][\A c \in Coordinators :
          ~router.coord_state[c].ready /\ router'.coord_state[c].ready =>
            /\ clock' = clock + 1
            /\ router'.coord_state[c].last_seen_ts = Some(clock')
            /\ router'.coord_state[c].consecutive_failures = 0]_vars

\* the requests with a forward to coordinator c outstanding
Forwarding(c) ==
  {r \in RouterRequests :
     /\ router.reqs[r].pc = "forwarding"
     /\ router.reqs[r].candidates[router.reqs[r].cur] = c}

\* C40: in every state, under any interleaving of searches, health rounds
\* and cancellations, the inflight counter of every coordinator is the number
\* of forwards to it that are outstanding (never negative, 0 when no request
\* is in progress), and total_routed never decreases: it counts the forwards
\* begun
C40_InflightCounts ==
  /\ [](\A c \in Coordinators :
          /\ router.coord_state[c].inflight = Cardinality(Forwarding(c))
          /\ router.coord_state[c].inflight >= 0
          /\ router.coord_state[c].total_routed =
               Cardinality({r \in RouterRequests : c \in Contacted(r)}))
  /\ []((\A r \in RouterRequests : router.reqs[r].pc # "forwarding") =>
          \A c \in Coordinators : router.coord_state[c].inflight = 0)
  /\ [][\A c \in Coordinators :
          router'.coord_state[c].total_routed >=
            router.coord_state[c].total_routed]_vars

\* a request was cancelled during its forward to a coordinator to which the
\* forward of the other request is outstanding: one forward in flight, two
\* routed
C40_Witness ==
  \E c \in Coordinators :
    /\ router.reqs["r1"].pc = "cancelled"
    /\ router.reqs["r1"].candidates[router.reqs["r1"].cur] = c
    /\ router.reqs["r2"].pc = "forwarding"
    /\ router.reqs["r2"].candidates[router.reqs["r2"].cur] = c
    /\ router.coord_state[c].inflight = 1
    /\ router.coord_state[c].total_routed = 2

=============================================================================
